---------------------------- MODULE Spec2Model ----------------------------
(***************************************************************************)
(* A model of the combinatorial core of the Lotto toolbox:                  *)
(*   - DistanceEliminator  (lottery_distance_eliminator.py)                 *)
(*   - the 4-combo coverage verifier (verify_4combo_strategy.py)            *)
(* Combinations are Python tuples, modelled as sequences of numbers; the    *)
(* elimination and coverage sets are Python sets of tuples, modelled as     *)
(* sets of sequences.                                                       *)
(***************************************************************************)
EXTENDS Integers, Sequences, FiniteSets, TLC

(***************************************************************************)
(* Bounds of the model.                                                     *)
(***************************************************************************)
\* largest max_num of an engine that receives a sequence of calls
MaxNum == 3
\* largest max_num of an engine that receives a single call
MaxFreshNum == 5
\* largest max_num of an engine that holds any elimination set before a call
MaxPriorNum == 4
\* largest number of combinations such an engine holds before the call
MaxPrior == 2
\* number of passes of one trimming session
MaxPasses == 3
\* number of calls of process_downloaded_file on one folder
MaxDownloads == 2
\* number of method calls made on one engine
MaxCalls == 2
\* number of lines of a draw file
MaxLines == 2
\* largest number of bytes of a binary file a tool reads
MaxBytes == 7

(***************************************************************************)
(* Program constants.                                                       *)
(***************************************************************************)
\* batch_size=100000, the default of eliminate_by_distance_efficient
DEFAULT_BATCH_SIZE == 100000
\* count=10, the default of get_sample_remaining and sample_remaining_4combos
DEFAULT_COUNT == 10
\* verify_4combo_strategy.py
MAX == 49
MAX_PLAY == 6
TOTAL_4_COMBOS == 211876

(***************************************************************************)
(* Python built-ins used by the code.                                       *)
(***************************************************************************)
\* set(combo)
ToSet(s) == {s[i] : i \in 1..Len(s)}

\* tuple(range(1, n + 1))
Range1(n) == [i \in 1..n |-> i]

\* math.factorial
RECURSIVE factorial(_)
factorial(m) == IF m = 0 THEN 1 ELSE m * factorial(m - 1)

\* itertools.combinations: indices start at 0..r-1
FirstIndices(r) == [j \in 1..r |-> j - 1]

\* itertools.combinations: the rightmost position whose index is not yet at
\* its maximum i + n - r (0 when there is none: the generator returns)
Pivot(ind, n, r) ==
    LET movable == {j \in 1..r : ind[j] # (j - 1) + n - r}
    IN  IF movable = {} THEN 0
        ELSE CHOOSE j \in movable : \A j2 \in movable : j2 <= j

\* faulty variant of NextIndices: the indices after the pivot are not reset
NextIndices_NoReset(ind, p) ==
    [j \in 1..Len(ind) |-> IF j = p THEN ind[j] + 1 ELSE ind[j]]

\* itertools.combinations: indices[i] += 1, then indices[j] = indices[j-1] + 1
NextIndices(ind, p) ==
    [j \in 1..Len(ind) |-> IF j < p THEN ind[j] ELSE ind[p] + 1 + (j - p)]

\* tuple(pool[i] for i in indices)
Pick(pool, ind) == [j \in 1..Len(ind) |-> pool[ind[j] + 1]]

RECURSIVE CombWalk(_, _, _, _)
CombWalk(pool, r, ind, acc) ==
    LET out == Append(acc, Pick(pool, ind))
        p   == Pivot(ind, Len(pool), r)
    IN  IF p = 0 THEN out
        ELSE CombWalk(pool, r, NextIndices(ind, p), out)

\* itertools.combinations(pool, r), as the sequence of the tuples it yields
combinations(pool, r) ==
    IF r > Len(pool) THEN << >>
    ELSE CombWalk(pool, r, FirstIndices(r), << >>)

\* for combo in itertools.combinations(range(1, self.max_num + 1), self.max_play)
Universe(n, k) == combinations(Range1(n), k)

\* sorted(numbers): the ascending arrangement of a list
RECURSIVE Insert(_, _)
Insert(x, s) ==
    IF s = << >> THEN <<x>>
    ELSE IF x <= Head(s) THEN <<x>> \o s
    ELSE <<Head(s)>> \o Insert(x, Tail(s))

RECURSIVE sorted(_)
sorted(s) == IF s = << >> THEN << >> ELSE Insert(Head(s), sorted(Tail(s)))

(***************************************************************************)
(* DistanceEliminator: pure parts.                                          *)
(***************************************************************************)
\* faulty variant of calculate_total_combinations: factorial(n - k) is left out
calculate_total_combinations_NoNK(n, k) ==
    factorial(n) \div factorial(k)

calculate_total_combinations(n, k) ==
    factorial(n) \div (factorial(k) * factorial(n - k))

\* faulty variant of calculate_distance: set1 | set2 in place of set1 & set2
calculate_distance_Union(k, combo1, combo2) ==
    k - Cardinality(ToSet(combo1) \cup ToSet(combo2))

calculate_distance(k, combo1, combo2) ==
    k - Cardinality(ToSet(combo1) \cap ToSet(combo2))

\* faulty variant of ComboDistance: the number of matches is the distance
ComboDistance_Matches(k, draw_set, combo) ==
    Cardinality(draw_set \cap ToSet(combo))

\* the distance computed inline by the two elimination loops
ComboDistance(k, draw_set, combo) ==
    k - Cardinality(draw_set \cap ToSet(combo))

\* faulty variant of ElimLoop: combo_distance <= distance in place of ==
RECURSIVE ElimLoop_AtMost(_, _, _, _, _, _, _)
ElimLoop_AtMost(univ, i, k, draw_set, distance, elim, count) ==
    IF i > Len(univ) THEN [eliminated |-> elim, count |-> count]
    ELSE LET combo == univ[i]
         IN  IF combo \in elim
             THEN ElimLoop_AtMost(univ, i + 1, k, draw_set, distance, elim,
                                  count)
             ELSE IF ComboDistance(k, draw_set, combo) <= distance
             THEN ElimLoop_AtMost(univ, i + 1, k, draw_set, distance,
                                  elim \cup {combo}, count + 1)
             ELSE ElimLoop_AtMost(univ, i + 1, k, draw_set, distance, elim,
                                  count)

\* faulty variant of ElimLoop: no "if combo in self.eliminated: continue"
RECURSIVE ElimLoop_NoSkip(_, _, _, _, _, _, _)
ElimLoop_NoSkip(univ, i, k, draw_set, distance, elim, count) ==
    IF i > Len(univ) THEN [eliminated |-> elim, count |-> count]
    ELSE LET combo == univ[i]
         IN  IF ComboDistance(k, draw_set, combo) = distance
             THEN ElimLoop_NoSkip(univ, i + 1, k, draw_set, distance,
                                  elim \cup {combo}, count + 1)
             ELSE ElimLoop_NoSkip(univ, i + 1, k, draw_set, distance, elim,
                                  count)

\* faulty variant of ElimLoop: the loop ends ("break") at the first combination that
\* is already eliminated
RECURSIVE ElimLoop_Break(_, _, _, _, _, _, _)
ElimLoop_Break(univ, i, k, draw_set, distance, elim, count) ==
    IF i > Len(univ) THEN [eliminated |-> elim, count |-> count]
    ELSE LET combo == univ[i]
         IN  IF combo \in elim
             THEN [eliminated |-> elim, count |-> count]
             ELSE IF ComboDistance(k, draw_set, combo) = distance
             THEN ElimLoop_Break(univ, i + 1, k, draw_set, distance,
                                 elim \cup {combo}, count + 1)
             ELSE ElimLoop_Break(univ, i + 1, k, draw_set, distance, elim,
                                 count)

\* eliminate_by_distance: the loop over the universe, from position i on
RECURSIVE ElimLoop(_, _, _, _, _, _, _)
ElimLoop(univ, i, k, draw_set, distance, elim, count) ==
    IF i > Len(univ) THEN [eliminated |-> elim, count |-> count]
    ELSE LET combo == univ[i]
         IN  IF combo \in elim
             THEN ElimLoop(univ, i + 1, k, draw_set, distance, elim, count)
             ELSE IF ComboDistance(k, draw_set, combo) = distance
             THEN ElimLoop(univ, i + 1, k, draw_set, distance,
                           elim \cup {combo}, count + 1)
             ELSE ElimLoop(univ, i + 1, k, draw_set, distance, elim, count)

\* univ is the walk itertools.combinations(range(1, max_num + 1), max_play)
eliminate_by_distance(univ, k, elim, draw, distance) ==
    ElimLoop(univ, 1, k, ToSet(draw), distance, elim, 0)

\* eliminate_by_distance_efficient: the loop over the universe; the batch is
\* merged into the set when it reaches batch_size
RECURSIVE BatchLoop(_, _, _, _, _, _, _, _, _)
BatchLoop(univ, i, k, draw_set, distance, batch_size, elim, batch, count) ==
    IF i > Len(univ) THEN [eliminated |-> elim, batch |-> batch, count |-> count]
    ELSE LET combo == univ[i]
         IN  IF combo \in elim
             THEN BatchLoop(univ, i + 1, k, draw_set, distance, batch_size,
                            elim, batch, count)
             ELSE IF ComboDistance(k, draw_set, combo) = distance
             THEN LET b2 == Append(batch, combo)
                  IN  IF Len(b2) >= batch_size
                      THEN BatchLoop(univ, i + 1, k, draw_set, distance,
                                     batch_size, elim \cup ToSet(b2), << >>,
                                     count + 1)
                      ELSE BatchLoop(univ, i + 1, k, draw_set, distance,
                                     batch_size, elim, b2, count + 1)
             ELSE BatchLoop(univ, i + 1, k, draw_set, distance, batch_size,
                            elim, batch, count)

\* faulty variant of eliminate_by_distance_efficient: the last batch replaces the set
\* (self.eliminated = set(batch)) instead of being merged into it
eliminate_by_distance_efficient_Replace(univ, k, elim, draw, distance, batch_size) ==
    LET r == BatchLoop(univ, 1, k, ToSet(draw), distance, batch_size, elim,
                       << >>, 0)
    IN  [eliminated |-> IF r.batch = << >> THEN r.eliminated
                        ELSE ToSet(r.batch),
         count |-> r.count]

\* faulty variant of eliminate_by_distance_efficient: no flush of the last
\* batch after the scan
eliminate_by_distance_efficient_NoFlush(univ, k, elim, draw, distance, batch_size) ==
    LET r == BatchLoop(univ, 1, k, ToSet(draw), distance,
                       batch_size, elim, << >>, 0)
    IN  [eliminated |-> r.eliminated, count |-> r.count]

eliminate_by_distance_efficient(univ, k, elim, draw, distance, batch_size) ==
    LET r == BatchLoop(univ, 1, k, ToSet(draw), distance,
                       batch_size, elim, << >>, 0)
    IN  [eliminated |-> r.eliminated \cup ToSet(r.batch), count |-> r.count]

\* faulty variant of RemainingLoop: "if combo in self.eliminated"
RECURSIVE RemainingLoop_KeepEliminated(_, _, _, _)
RemainingLoop_KeepEliminated(univ, i, elim, remaining) ==
    IF i > Len(univ) THEN remaining
    ELSE IF univ[i] \in elim
    THEN RemainingLoop_KeepEliminated(univ, i + 1, elim,
                                      Append(remaining, univ[i]))
    ELSE RemainingLoop_KeepEliminated(univ, i + 1, elim, remaining)

\* save_remaining: the combinations of the universe not in the set, in the
\* order of the walk
RECURSIVE RemainingLoop(_, _, _, _)
RemainingLoop(univ, i, elim, remaining) ==
    IF i > Len(univ) THEN remaining
    ELSE IF univ[i] \notin elim
    THEN RemainingLoop(univ, i + 1, elim, Append(remaining, univ[i]))
    ELSE RemainingLoop(univ, i + 1, elim, remaining)

Remaining(univ, elim) == RemainingLoop(univ, 1, elim, << >>)

\* get_sample_remaining: the walk stops once len(remaining) >= count, a test
\* made only after an append
RECURSIVE SampleLoop(_, _, _, _, _)
SampleLoop(univ, i, elim, count, remaining) ==
    IF i > Len(univ) THEN remaining
    ELSE IF univ[i] \notin elim
    THEN LET r2 == Append(remaining, univ[i])
         IN  IF Len(r2) >= count THEN r2
             ELSE SampleLoop(univ, i + 1, elim, count, r2)
    ELSE SampleLoop(univ, i + 1, elim, count, remaining)

get_sample_remaining(univ, elim, count) ==
    SampleLoop(univ, 1, elim, count, << >>)

\* print_statistics: the figures printed (total, eliminated, remaining,
\* draws processed)
print_statistics(total, elim, drawlist) ==
    [total     |-> total,
     eliminated |-> Cardinality(elim),
     remaining |-> total - Cardinality(elim),
     draws     |-> Len(drawlist)]

(***************************************************************************)
(* Draw files.  A line, after strip(), is blank, a comment (starts with     *)
(* '#'), a line without ':', or a data line; of a data line the model keeps *)
(* the comma-separated tokens of the text between the first ':' and the     *)
(* first '/'.  A token is a string of digits (with its value) or not; of    *)
(* some strings isdigit() is true and int() raises.                         *)
(***************************************************************************)
Num(v) == [isdigit |-> TRUE, int |-> v]
NotNum == [isdigit |-> FALSE, int |-> 0]
\* int() of a token that isdigit() and that int() rejects (such as a
\* superscript digit)
ValueError == -1
BadDigit == [isdigit |-> TRUE, int |-> ValueError]
Blank == [kind |-> "blank", toks |-> << >>]
Comment == [kind |-> "comment", toks |-> << >>]
NoColon == [kind |-> "nocolon", toks |-> << >>]
DataLine(toks) == [kind |-> "data", toks |-> toks]
\* the tokens of a list of numbers
Nums(nums) == [i \in 1..Len(nums) |-> Num(nums[i])]
NumLine(nums) == DataLine(Nums(nums))

\* int(num_str) raises for a token of the list
Raises(toks) ==
    \E i \in 1..Len(toks) : toks[i].isdigit /\ toks[i].int = ValueError

\* the numbers of a data line: the int of every token that isdigit()
RECURSIVE ExtractNumbers(_)
ExtractNumbers(toks) ==
    IF toks = << >> THEN << >>
    ELSE IF Head(toks).isdigit
    THEN <<Head(toks).int>> \o ExtractNumbers(Tail(toks))
    ELSE ExtractNumbers(Tail(toks))

\* int() raises for a token of a line of the file
FileRaises(lines) ==
    \E i \in 1..Len(lines) : lines[i].kind = "data" /\ Raises(lines[i].toks)

\* DistanceEliminator.load_draws: the draws appended for the lines of a
\* file; an exception ends the loop and leaves the draws appended so far
RECURSIVE load_draws(_, _)
load_draws(lines, k) ==
    IF lines = << >> THEN << >>
    ELSE LET line == Head(lines)
             rest == load_draws(Tail(lines), k)
         IN  IF line.kind # "data" THEN rest
             ELSE IF Raises(line.toks) THEN << >>
             ELSE LET numbers == ExtractNumbers(line.toks)
                  IN  IF Len(numbers) = k THEN <<sorted(numbers)>> \o rest
                      ELSE rest

\* self.draws[-specific_draws:] (None: all the draws)
NoneArg == -1
LastDraws(drawlist, specific_draws) ==
    IF specific_draws = NoneArg \/ specific_draws = 0
       \/ specific_draws >= Len(drawlist)
    THEN drawlist
    ELSE SubSeq(drawlist, Len(drawlist) - specific_draws + 1, Len(drawlist))

\* eliminate_from_draws: the loop over the draws to process
RECURSIVE DrawsLoop(_, _, _, _, _, _)
DrawsLoop(univ, k, todo, distance, elim, counts) ==
    IF todo = << >> THEN [eliminated |-> elim, counts |-> counts]
    ELSE LET r == eliminate_by_distance(univ, k, elim, Head(todo), distance)
         IN  DrawsLoop(univ, k, Tail(todo), distance, r.eliminated,
                       Append(counts, r.count))

(***************************************************************************)
(* verify_4combo_strategy.py: pure parts.                                   *)
(***************************************************************************)
\* faulty variant of get_4combos_from_6: the combinations as they come,
\* without sorted()
get_4combos_from_6_NoSort(numbers) ==
    combinations(numbers, 4)

\* get_4combos_from_6: tuple(sorted(combo)) of every
\* itertools.combinations(numbers, 4)
get_4combos_from_6(numbers) ==
    LET combos == combinations(numbers, 4)
    IN  [i \in 1..Len(combos) |-> sorted(combos[i])]

\* the numbers of a data line: int of every token that isdigit() and lies in
\* 1..MAX
RECURSIVE ExtractNumbersInRange(_)
ExtractNumbersInRange(toks) ==
    IF toks = << >> THEN << >>
    ELSE IF Head(toks).isdigit /\ 1 <= Head(toks).int /\ Head(toks).int <= MAX
    THEN <<Head(toks).int>> \o ExtractNumbersInRange(Tail(toks))
    ELSE ExtractNumbersInRange(Tail(toks))

\* verify_4combo_strategy.load_draws: the draws appended for the lines of a
\* file
RECURSIVE VerifyLoadLoop(_)
VerifyLoadLoop(lines) ==
    IF lines = << >> THEN << >>
    ELSE LET line == Head(lines)
             rest == VerifyLoadLoop(Tail(lines))
         IN  IF line.kind # "data" THEN rest
             ELSE LET numbers == ExtractNumbersInRange(line.toks)
                  IN  IF Len(numbers) = MAX_PLAY
                      THEN <<sorted(numbers)>> \o rest
                      ELSE rest

\* verify_4combo_strategy.load_draws: the list returned; [] after an
\* exception
verify_load_draws(lines) ==
    IF FileRaises(lines) THEN << >> ELSE VerifyLoadLoop(lines)

\* analyze_4combos: the loop drawn_4combos.update(get_4combos_from_6(draw))
RECURSIVE analyze_4combos(_)
analyze_4combos(drawlist) ==
    IF drawlist = << >> THEN {}
    ELSE ToSet(get_4combos_from_6(Head(drawlist)))
         \cup analyze_4combos(Tail(drawlist))

\* verify_totals: the figures computed; remaining is the value returned
verify_totals(drawn, total_draws) ==
    [drawn_count    |-> Cardinality(drawn),
     remaining      |-> TOTAL_4_COMBOS - Cardinality(drawn),
     max_possible   |-> total_draws * 15,
     overlap        |-> total_draws * 15 - Cardinality(drawn)]

\* sample_remaining_4combos: the combinations printed; the walk over
\* itertools.combinations(range(1, MAX + 1), 4) goes on from the indices ind
\* and stops once found >= count, a test made only after a print
RECURSIVE Sample4Loop(_, _, _, _, _)
Sample4Loop(pool, ind, drawn, count, printed) ==
    LET combo == Pick(pool, ind)
        out   == IF combo \notin drawn THEN Append(printed, combo)
                 ELSE printed
        p     == Pivot(ind, Len(pool), 4)
    IN  IF combo \notin drawn /\ Len(out) >= count THEN out
        ELSE IF p = 0 THEN out
        ELSE Sample4Loop(pool, NextIndices(ind, p), drawn, count, out)

sample_remaining_4combos(drawn, count) ==
    Sample4Loop(Range1(MAX), FirstIndices(4), drawn, count, << >>)

(***************************************************************************)
(* Text.  A string is the sequence of its characters.                       *)
(***************************************************************************)
DigitChars == <<"0", "1", "2", "3", "4", "5", "6", "7", "8", "9">>

\* whitespace that str.strip() removes
Whitespace == {" ", "\n"}

\* str.isdigit()
isdigit(s) == s # << >> /\ \A i \in 1..Len(s) : s[i] \in ToSet(DigitChars)

\* int(s) of a string of digits
RECURSIVE int(_)
int(s) ==
    LET last == CHOOSE d \in 0..9 : DigitChars[d + 1] = s[Len(s)]
    IN  IF Len(s) = 1 THEN last
        ELSE 10 * int(SubSeq(s, 1, Len(s) - 1)) + last

\* str(n) of a number n >= 0
RECURSIVE str(_)
str(n) ==
    IF n < 10 THEN <<DigitChars[n + 1]>>
    ELSE str(n \div 10) \o <<DigitChars[(n % 10) + 1]>>

\* f'{n:2d}': right-aligned in a field of width 2
Fmt2(n) == IF n < 10 THEN <<" ">> \o str(n) ELSE str(n)

\* sep.join(parts)
RECURSIVE join(_, _)
join(sep, parts) ==
    IF parts = << >> THEN << >>
    ELSE IF Len(parts) = 1 THEN parts[1]
    ELSE parts[1] \o sep \o join(sep, Tail(parts))

\* s.strip()
RECURSIVE strip(_)
strip(s) ==
    IF s = << >> THEN s
    ELSE IF Head(s) \in Whitespace THEN strip(Tail(s))
    ELSE IF s[Len(s)] \in Whitespace THEN strip(SubSeq(s, 1, Len(s) - 1))
    ELSE s

\* s.replace(' ', '')
RECURSIVE replace_spaces(_)
replace_spaces(s) ==
    IF s = << >> THEN s
    ELSE IF Head(s) = " " THEN replace_spaces(Tail(s))
    ELSE <<Head(s)>> \o replace_spaces(Tail(s))

\* s.split(sep) for a separator of one character; part is the part being
\* read
RECURSIVE SplitLoop(_, _, _)
SplitLoop(s, sep, part) ==
    IF s = << >> THEN <<part>>
    ELSE IF Head(s) = sep THEN <<part>> \o SplitLoop(Tail(s), sep, << >>)
    ELSE SplitLoop(Tail(s), sep, Append(part, Head(s)))

split(s, sep) == SplitLoop(s, sep, << >>)

\* ', '.join(f'{n:2d}' for n in combo): the text record of a combination
TextRecord(combo) ==
    join(<<",", " ">>, [i \in 1..Len(combo) |-> Fmt2(combo[i])])

\* [int(part) for part in parts if part.isdigit()]
RECURSIVE IntsOfDigitParts(_)
IntsOfDigitParts(parts) ==
    IF parts = << >> THEN << >>
    ELSE IF isdigit(Head(parts))
    THEN <<int(Head(parts))>> \o IntsOfDigitParts(Tail(parts))
    ELSE IntsOfDigitParts(Tail(parts))

\* faulty variant of read_variant_text: the spaces are not removed
read_variant_text_KeepSpaces(line) ==
    IntsOfDigitParts(split(strip(line), ","))

\* lottery_trim_tool.read_variant_text
read_variant_text(line) ==
    IntsOfDigitParts(split(replace_spaces(strip(line)), ","))

(***************************************************************************)
(* The binary codec: one byte per number.                                   *)
(***************************************************************************)
SP == 32

\* faulty variant of tochar: the offset is added without the mask
tochar_NoMask(ch) == ch + SP

\* tochar: (ch + SP) & 0xFF
tochar(ch) == (ch + SP) % 256

\* faulty variant of unchar: the offset is added, as in tochar
unchar_Plus(ch) == (ch + SP) % 256

\* unchar: (ch - SP) & 0xFF
unchar(ch) == (ch - SP) % 256

\* lottery_trim_tool.var_to_bin; save_remaining builds its binary records the
\* same way
var_to_bin(variant) == [i \in 1..Len(variant) |-> tochar(variant[i])]

\* lottery_trim_tool.bin_to_var
bin_to_var(data, width) == [i \in 1..width |-> unchar(data[i])]

\* binary_to_text_converter.bin_to_variant
bin_to_variant(data, width) == [i \in 1..width |-> unchar(data[i])]

\* fp.read(width) at offset pos of a file of bytes
read(data, pos, width) ==
    SubSeq(data, pos + 1,
           IF pos + width < Len(data) THEN pos + width ELSE Len(data))

\* the line list_binary and process_binary print for a variant
OutputLine(variant) ==
    join(<<",", " ">>,
         [i \in 1..(Len(variant) - 1) |-> Fmt2(variant[i])])
    \o <<",", " ">> \o Fmt2(variant[Len(variant)])

\* faulty variant of ListLoop: the loop ends only at an empty read, and a
\* short last record is decoded as far as it goes
RECURSIVE ListLoop_KeepPartial(_, _, _, _)
ListLoop_KeepPartial(data, pos, width, out) ==
    LET chunk == read(data, pos, width)
    IN  IF Len(chunk) = 0 THEN out
        ELSE ListLoop_KeepPartial(
                 data, pos + Len(chunk), width,
                 [variants |-> Append(out.variants,
                                      bin_to_variant(chunk, Len(chunk))),
                  lines    |-> Append(out.lines,
                                      OutputLine(bin_to_variant(chunk,
                                                                Len(chunk)))),
                  count    |-> out.count + 1])

\* list_binary: the loop over the records of the file
RECURSIVE ListLoop(_, _, _, _)
ListLoop(data, pos, width, out) ==
    LET chunk == read(data, pos, width)
    IN  IF Len(chunk) # width THEN out
        ELSE ListLoop(
                 data, pos + width, width,
                 [variants |-> Append(out.variants,
                                      bin_to_variant(chunk, width)),
                  lines    |-> Append(out.lines,
                                      OutputLine(bin_to_variant(chunk,
                                                                width))),
                  count    |-> out.count + 1])

\* list_binary(filename, max_play) on a file that exists and whose name ends
\* as a binary file's: the variants decoded, the lines printed, the count
\* reported and the value returned
list_binary(data, width) ==
    LET out == ListLoop(data, 0, width,
                        [variants |-> << >>, lines |-> << >>, count |-> 0])
    IN  [variants |-> out.variants, lines |-> out.lines,
         count |-> out.count, ok |-> TRUE]

\* process_binary: the loop over the records of the file; the records that
\* do not contain num are written to the output file
RECURSIVE ProcessLoop(_, _, _, _, _)
ProcessLoop(data, pos, width, num, out) ==
    LET chunk == read(data, pos, width)
        variant == bin_to_var(chunk, width)
    IN  IF Len(chunk) # width THEN out
        ELSE ProcessLoop(
                 data, pos + width, width, num,
                 [variants |-> Append(out.variants, variant),
                  cnt_line |-> out.cnt_line + 1,
                  cnt_trim |-> IF num \in ToSet(variant)
                               THEN out.cnt_trim + 1 ELSE out.cnt_trim,
                  written  |-> IF num \in ToSet(variant) THEN out.written
                               ELSE out.written \o chunk])

process_binary(data, num, width) ==
    ProcessLoop(data, 0, width, num,
                [variants |-> << >>, cnt_line |-> 0, cnt_trim |-> 0,
                 written |-> << >>])

\* process_text: the loop over the lines of the file; a line that is blank
\* or whose first character is no digit is passed over, and so is a line
\* that does not hold max_play numbers; the lines whose numbers do not
\* contain num are written to the output file
RECURSIVE TextLoop(_, _, _, _)
TextLoop(lines, num, max_play, out) ==
    IF lines = << >> THEN out
    ELSE LET line == Head(lines)
             variant == read_variant_text(line)
         IN  IF strip(line) = << >> \/ ~isdigit(<<line[1]>>)
             THEN TextLoop(Tail(lines), num, max_play, out)
             ELSE IF Len(variant) # max_play
             THEN TextLoop(Tail(lines), num, max_play, out)
             ELSE TextLoop(
                      Tail(lines), num, max_play,
                      [variants |-> Append(out.variants, variant),
                       cnt_line |-> out.cnt_line + 1,
                       cnt_trim |-> IF num \in ToSet(variant)
                                    THEN out.cnt_trim + 1 ELSE out.cnt_trim,
                       written  |-> IF num \in ToSet(variant) THEN out.written
                                    ELSE Append(out.written, line)])

process_text(lines, num, max_play) ==
    TextLoop(lines, num, max_play,
             [variants |-> << >>, cnt_line |-> 0, cnt_trim |-> 0,
              written |-> << >>])

(***************************************************************************)
(* trim_set_played: the names of its files.  A name is the sequence of its  *)
(* characters.                                                              *)
(***************************************************************************)
\* str.lower, for the letters of the names used
lower(name) ==
    [i \in 1..Len(name) |->
        CASE name[i] = "B" -> "b"
          [] name[i] = "D" -> "d"
          [] OTHER -> name[i]]

\* is_binary_file: 'b' ends the lowered name, or '.b' does, or 'b' is among
\* its last two characters
is_binary_file(filename) ==
    LET low == lower(filename)
        n == Len(low)
        last2 == SubSeq(low, IF n > 2 THEN n - 1 ELSE 1, n)
    IN  \/ (n >= 1 /\ low[n] = "b")
        \/ (n >= 2 /\ low[n - 1] = "." /\ low[n] = "b")
        \/ "b" \in ToSet(last2)

\* temp_a and temp_b
TempA(f_name) == f_name \o <<"$">>
TempB(f_name) == f_name \o <<"&">>

\* f_name.replace('.', '_trimmed.')
RECURSIVE ReplaceDots(_)
ReplaceDots(name) ==
    IF name = << >> THEN << >>
    ELSE (IF Head(name) = "."
          THEN <<"_", "t", "r", "i", "m", "m", "e", "d", ".">>
          ELSE <<Head(name)>>) \o ReplaceDots(Tail(name))

\* output_name
OutputName(f_name) ==
    LET output_name == ReplaceDots(f_name)
    IN  IF "." \notin ToSet(output_name)
        THEN f_name \o <<"_", "t", "r", "i", "m", "m", "e", "d">>
        ELSE output_name

\* faulty variant of NextOutput: the output name is kept for the next pass
NextOutput_Same(o_name, temp_a, temp_b) == o_name

\* o_name = temp_b if o_name == temp_a else temp_a
NextOutput(o_name, temp_a, temp_b) ==
    IF o_name = temp_a THEN temp_b ELSE temp_a

\* max_val = 47 if max_play == 7 else 49
MaxVal(max_play) == IF max_play = 7 THEN 47 ELSE 49

\* int(s) of an entry typed: ValueError for an entry that is no number
EntryInt(entry) == IF isdigit(entry) THEN int(entry) ELSE ValueError

(***************************************************************************)
(* save_remaining: what is written to the file, write by write.             *)
(***************************************************************************)
\* a header line of the text file: '#', the rest of the comment left out
HeaderLine == <<"#", "\n">>

\* format as the model names it: 'text' and 'binary'
FormatText == 0
FormatBinary == 1

save_remaining(remaining, format) ==
    IF format = FormatBinary
    THEN [i \in 1..Len(remaining) |-> var_to_bin(remaining[i])]
    ELSE <<HeaderLine, HeaderLine, HeaderLine, HeaderLine>>
         \o [i \in 1..Len(remaining) |->
               TextRecord(remaining[i]) \o <<"\n">>]

(***************************************************************************)
(* The converters of the historical draw format.  Of a line with ':' the    *)
(* model keeps date, the stripped text before the first ':'; colons, the     *)
(* number of ':'; and of the text between the first ':' and the next one    *)
(* (or the end): toks, the comma-separated tokens before the first '/', and *)
(* after, the tokens that follow each '/'.  Tokens hold no inner whitespace *)
(* and a '/' stands apart from its neighbours.                              *)
(***************************************************************************)
TxtLine(date, colons, toks, after) ==
    [kind |-> "data", date |-> date, colons |-> colons, toks |-> toks,
     after |-> after]

\* parse_draw_line and parse_txt_line return None
None == [date |-> << >>, numbers |-> << >>, bonus |-> -1, holes |-> -1,
         odd |-> -1]

\* faulty variant of CountHoles: a gap of 2 counts as a hole
RECURSIVE CountHoles_AtLeast2(_)
CountHoles_AtLeast2(sorted_nums) ==
    IF Len(sorted_nums) < 2 THEN 0
    ELSE (IF sorted_nums[2] - sorted_nums[1] >= 2 THEN 1 ELSE 0)
         + CountHoles_AtLeast2(Tail(sorted_nums))

\* the loop over range(1, len(sorted_nums)) that counts the holes
RECURSIVE CountHoles(_)
CountHoles(sorted_nums) ==
    IF Len(sorted_nums) < 2 THEN 0
    ELSE (IF sorted_nums[2] - sorted_nums[1] > 2 THEN 1 ELSE 0)
         + CountHoles(Tail(sorted_nums))

\* sum(1 for n in numbers if n % 2 == 1)
RECURSIVE CountOdd(_)
CountOdd(numbers) ==
    IF numbers = << >> THEN 0
    ELSE (IF Head(numbers) % 2 = 1 THEN 1 ELSE 0) + CountOdd(Tail(numbers))

\* txt_to_json_converter.parse_draw_line
parse_draw_line(line) ==
    IF line.kind # "data" THEN None
    ELSE IF Len(line.date) # 6 THEN None
    ELSE IF Len(line.after) # 1 THEN None
    ELSE IF Raises(line.toks) THEN None
    ELSE LET full_date == <<"2", "0">> \o SubSeq(line.date, 1, 2) \o <<"-">>
                          \o SubSeq(line.date, 3, 4) \o <<"-">>
                          \o SubSeq(line.date, 5, 6)
             numbers == ExtractNumbersInRange(line.toks)
             bonus_str == line.after[1]
         IN  IF ~bonus_str.isdigit THEN None
             ELSE IF bonus_str.int = ValueError THEN None
             ELSE IF Len(numbers) # 6 \/ bonus_str.int < 1
                     \/ bonus_str.int > 49 THEN None
             ELSE [date    |-> full_date,
                   numbers |-> numbers,
                   bonus   |-> bonus_str.int,
                   holes   |-> CountHoles(sorted(numbers)),
                   odd     |-> CountOdd(numbers)]

\* 649CA.parse_txt_line: '20' if int(yy) < 50 else '19'
Century(yy) == IF int(yy) < 50 THEN <<"2", "0">> ELSE <<"1", "9">>

\* 649CA.parse_txt_line
parse_txt_line(line) ==
    IF line.kind \in {"blank", "comment"} THEN None
    ELSE IF line.kind = "nocolon" \/ line.colons # 1 THEN None
    ELSE IF Len(line.date) # 6 THEN None
    ELSE IF ~isdigit(SubSeq(line.date, 1, 2)) THEN None
    ELSE IF Raises(line.toks \o line.after) THEN None
    ELSE LET formatted_date == Century(SubSeq(line.date, 1, 2))
                               \o SubSeq(line.date, 1, 2) \o <<"-">>
                               \o SubSeq(line.date, 3, 4) \o <<"-">>
                               \o SubSeq(line.date, 5, 6)
             numbers == ExtractNumbers(line.toks \o line.after)
         IN  IF Len(numbers) # 7 THEN None
             ELSE LET main_numbers == SubSeq(numbers, 1, 6)
                  IN  [date    |-> formatted_date,
                       numbers |-> main_numbers,
                       bonus   |-> numbers[7],
                       holes   |-> CountHoles(sorted(main_numbers)),
                       odd     |-> CountOdd(main_numbers)]

\* ord(c) of the characters of a date
ord(c) ==
    IF c \in ToSet(DigitChars)
    THEN 48 + (CHOOSE d \in 0..9 : DigitChars[d + 1] = c)
    ELSE IF c = "-" THEN 45 ELSE 120

\* a < b for two strings
RECURSIVE StrLess(_, _)
StrLess(a, b) ==
    IF b = << >> THEN FALSE
    ELSE IF a = << >> THEN TRUE
    ELSE IF ord(Head(a)) # ord(Head(b)) THEN ord(Head(a)) < ord(Head(b))
    ELSE StrLess(Tail(a), Tail(b))

\* faulty variant of InsertByDate: x goes before the draws of the same date
RECURSIVE InsertByDate_Unstable(_, _)
InsertByDate_Unstable(x, s) ==
    IF s = << >> THEN <<x>>
    ELSE IF StrLess(s[Len(s)].date, x.date) THEN Append(s, x)
    ELSE Append(InsertByDate_Unstable(x, SubSeq(s, 1, Len(s) - 1)), s[Len(s)])

\* draws.sort(key=lambda x: x['date']), a stable sort: x, the next draw of
\* the list, goes after every draw of s whose date is not greater
RECURSIVE InsertByDate(_, _)
InsertByDate(x, s) ==
    IF s = << >> THEN <<x>>
    ELSE IF ~StrLess(x.date, s[Len(s)].date) THEN Append(s, x)
    ELSE Append(InsertByDate(x, SubSeq(s, 1, Len(s) - 1)), s[Len(s)])

RECURSIVE sort_by_date(_)
sort_by_date(s) ==
    IF s = << >> THEN << >>
    ELSE InsertByDate(s[Len(s)], sort_by_date(SubSeq(s, 1, Len(s) - 1)))

\* faulty variant of ConvertLoop: a comment line counts as skipped
RECURSIVE ConvertLoop_CountComments(_)
ConvertLoop_CountComments(lines) ==
    IF lines = << >> THEN [draws |-> << >>, skipped |-> 0]
    ELSE LET draw == parse_draw_line(lines[Len(lines)])
             before ==
                 ConvertLoop_CountComments(SubSeq(lines, 1, Len(lines) - 1))
         IN  IF draw # None
             THEN [before EXCEPT !.draws = Append(@, draw)]
             ELSE IF lines[Len(lines)].kind # "blank"
             THEN [before EXCEPT !.skipped = @ + 1]
             ELSE before

\* txt_to_json_converter.convert_txt_to_json: the loop over the lines
RECURSIVE ConvertLoop(_)
ConvertLoop(lines) ==
    IF lines = << >> THEN [draws |-> << >>, skipped |-> 0]
    ELSE LET draw == parse_draw_line(lines[Len(lines)])
             before == ConvertLoop(SubSeq(lines, 1, Len(lines) - 1))
         IN  IF draw # None
             THEN [before EXCEPT !.draws = Append(@, draw)]
             ELSE IF lines[Len(lines)].kind \notin {"blank", "comment"}
             THEN [before EXCEPT !.skipped = @ + 1]
             ELSE before

\* txt_to_json_converter.convert_txt_to_json on a file that exists: the
\* draws written, the number of lines skipped and the value returned
convert_txt_to_json(lines) ==
    LET r == ConvertLoop(lines)
    IN  [draws |-> sort_by_date(r.draws), generated |-> << >>,
         skipped |-> r.skipped, ok |-> TRUE]

\* 649CA.convert_txt_to_json: the loop over the lines
RECURSIVE ConvertLoopCA(_)
ConvertLoopCA(lines) ==
    IF lines = << >> THEN [draws |-> << >>, skipped |-> 0]
    ELSE LET draw == parse_txt_line(lines[Len(lines)])
             before == ConvertLoopCA(SubSeq(lines, 1, Len(lines) - 1))
         IN  IF draw # None
             THEN [before EXCEPT !.draws = Append(@, draw)]
             ELSE IF lines[Len(lines)].kind \notin {"blank", "comment"}
             THEN [before EXCEPT !.skipped = @ + 1]
             ELSE before

\* 649CA.convert_txt_to_json on a file that exists
convert_txt_to_json_CA(lines) ==
    LET r == ConvertLoopCA(lines)
    IN  [draws |-> sort_by_date(r.draws), generated |-> << >>,
         skipped |-> r.skipped, ok |-> TRUE]

(***************************************************************************)
(* State: one DistanceEliminator with its caller, one run of the 4-combo    *)
(* verifier, and one call of a tool.                                        *)
(***************************************************************************)
VARIABLES
    max_num,             \* self.max_num
    max_play,            \* self.max_play
    total_combinations,  \* self.total_combinations
    eliminated,          \* self.eliminated
    draws,               \* self.draws
    ret,                 \* the last call: its name, arguments and results
    calls,               \* number of calls made so far
    elim_calls,          \* number of runs of an elimination loop so far
    sum_counts,          \* sum of the counts those runs returned
    stats_requested,     \* print_statistics or save_remaining has run
    v_pc,                \* verifier: position in main()
    v_draws,             \* verifier: draws
    drawn_4combos,       \* verifier: drawn_4combos
    v_out,               \* verifier: what the last step returned or printed
    v_file,              \* verifier: the lines of the draw file read
    t_op,                \* tool: the function called, "idle" before the call
    t_in,                \* tool: its arguments
    t_out,               \* tool: what it returned or wrote
    s_pc,                \* trim session: position in trim_set_played
    s_name,              \* trim session: f_name
    s_fs,                \* trim session: the files on disk, by name
    s_i,                 \* trim session: i_name
    s_o,                 \* trim session: o_name
    s_in,                \* trim session: the last entry typed
    s_passes,            \* trim session: number of passes run
    s_opened,            \* trim session: the (read, write) paths of the passes
    s_written,           \* trim session: paths opened for writing or replaced
    m_fs,                \* file manager: the files, by role
    m_ret,               \* file manager: the last call and what it returned
    m_calls              \* file manager: number of calls made

evars == <<max_num, max_play, total_combinations, eliminated, draws, ret,
           calls, elim_calls, sum_counts, stats_requested>>
vvars == <<v_pc, v_draws, drawn_4combos, v_out, v_file>>
tvars == <<t_op, t_in, t_out>>
svars == <<s_pc, s_name, s_fs, s_i, s_o, s_in, s_passes, s_opened,
           s_written>>
mvars == <<m_fs, m_ret, m_calls>>
vars == <<evars, vvars, tvars, svars, mvars>>

NoStats == [total |-> -1, eliminated |-> -1, remaining |-> -1, draws |-> -1]

NoCall == [op |-> "init", draw |-> << >>, other |-> << >>, d |-> -1,
           arg |-> -1, count |-> -1, list |-> << >>, counts |-> << >>,
           stats |-> NoStats, ok |-> TRUE, written |-> << >>]

NoOutput == [drawn_count |-> -1, remaining |-> -1, max_possible |-> -1,
             overlap |-> -1, count |-> -1, printed |-> << >>]

\* DistanceEliminator.__init__; factorial(n - k) raises for k > n, so an
\* engine exists only for 0 <= k <= n
Construct(n, k) ==
    /\ max_num = n
    /\ max_play = k
    /\ total_combinations = calculate_total_combinations(n, k)
    /\ eliminated = {}
    /\ draws = << >>
    /\ ret = NoCall
    /\ calls = 0
    /\ elim_calls = 0
    /\ sum_counts = 0
    /\ stats_requested = FALSE

\* the verifier before main() starts, or not run at all
VerifierAt(pc) ==
    /\ v_pc = pc
    /\ v_draws = << >>
    /\ drawn_4combos = {}
    /\ v_out = NoOutput
    /\ v_file = << >>

\* no tool has been called
ToolsIdle ==
    /\ t_op = "idle"
    /\ t_in = << >>
    /\ t_out = << >>

\* a file that does not exist
Absent == [exists |-> FALSE]

\* trim_set_played has not been started
TrimIdle ==
    /\ s_pc = "idle"
    /\ s_name = << >>
    /\ s_fs = << >>
    /\ s_i = << >>
    /\ s_o = << >>
    /\ s_in = << >>
    /\ s_passes = 0
    /\ s_opened = << >>
    /\ s_written = {}

\* no LotteryFileManager has been made
ManagerIdle ==
    /\ m_fs = [download |-> Absent, json_new |-> Absent,
               json_old |-> Absent, txt_file |-> Absent]
    /\ m_ret = [op |-> "init", ok |-> TRUE, why |-> "", txt_ok |-> TRUE]
    /\ m_calls = 0

\* files on disk, by name: the file name, written to or created with data
Put(fs, name, data) ==
    [n \in (DOMAIN fs) \cup {name} |-> IF n = name THEN data ELSE fs[n]]

\* files on disk, by name: the file name, removed
Remove(fs, name) == [n \in (DOMAIN fs) \ {name} |-> fs[n]]

\* os.path.exists(name)
Exists(fs, name) == name \in DOMAIN fs

\* the universe the engine walks
U == Universe(max_num, max_play)

Reverse(s) == [i \in 1..Len(s) |-> s[Len(s) + 1 - i]]

RECURSIVE SeqsUpTo(_, _)
SeqsUpTo(S, m) ==
    IF m = 0 THEN {<< >>}
    ELSE LET shorter == SeqsUpTo(S, m - 1)
         IN  shorter \cup {Append(s, x) : s \in shorter, x \in S}

RECURSIVE SumSeq(_)
SumSeq(s) == IF s = << >> THEN 0 ELSE Head(s) + SumSeq(Tail(s))

(***************************************************************************)
(* Inputs of the calls.                                                     *)
(***************************************************************************)
\* distances a caller passes
DistanceArgs == 0..max_play

\* batch sizes a caller passes
BatchSizes == {2, DEFAULT_BATCH_SIZE}

\* specific_draws a caller passes
SpecificDraws == {NoneArg, 0, 1}

\* counts a caller passes to the sampling functions
SampleCounts == {0, 1, 2, DEFAULT_COUNT}

\* lines of the draw files an engine reads: a comment, a well-formed draw
\* listed in descending order, and max_play times the number 1 after a token
\* that is no number, and after a token int() rejects
FileLines ==
    {Comment,
     NumLine(Reverse(U[Len(U)])),
     DataLine(<<NotNum>> \o [i \in 1..max_play |-> Num(1)]),
     DataLine(<<BadDigit>> \o [i \in 1..max_play |-> Num(1)])}

Files == SeqsUpTo(FileLines, MaxLines)

(***************************************************************************)
(* The calls on a DistanceEliminator.                                       *)
(***************************************************************************)
EliminateByDistance(univ, draw, distance) ==
    /\ LET r == eliminate_by_distance(univ, max_play, eliminated, draw,
                                      distance)
       IN  /\ eliminated' = r.eliminated
           /\ ret' = [NoCall EXCEPT !.op = "eliminate_by_distance",
                                    !.draw = draw, !.d = distance,
                                    !.count = r.count]
           /\ sum_counts' = sum_counts + r.count
    /\ calls' = calls + 1
    /\ elim_calls' = elim_calls + 1
    /\ UNCHANGED <<max_num, max_play, total_combinations, draws,
                   stats_requested, vvars, tvars, svars, mvars>>

EliminateByDistanceEfficient(univ, draw, distance, batch_size) ==
    /\ LET r == eliminate_by_distance_efficient(univ, max_play, eliminated,
                                                draw, distance, batch_size)
       IN  /\ eliminated' = r.eliminated
           /\ ret' = [NoCall EXCEPT !.op = "eliminate_by_distance_efficient",
                                    !.draw = draw, !.d = distance,
                                    !.arg = batch_size, !.count = r.count]
           /\ sum_counts' = sum_counts + r.count
    /\ calls' = calls + 1
    /\ elim_calls' = elim_calls + 1
    /\ UNCHANGED <<max_num, max_play, total_combinations, draws,
                   stats_requested, vvars, tvars, svars, mvars>>

\* load_draws(filename): lines is the file's content; a missing file leaves
\* draws reset to [] and returns False, and so does an exception, which leaves
\* the draws appended before it
LoadDraws(exists, lines) ==
    /\ draws' = IF exists THEN load_draws(lines, max_play) ELSE << >>
    /\ ret' = [NoCall EXCEPT !.op = "load_draws",
                             !.ok = exists /\ ~FileRaises(lines)]
    /\ calls' = calls + 1
    /\ UNCHANGED <<max_num, max_play, total_combinations, eliminated,
                   elim_calls, sum_counts, stats_requested, vvars, tvars, svars, mvars>>

\* eliminate_from_draws: ret.list is draws_to_process, ret.counts the count
\* printed for each draw, ret.stats the statistics printed at the end
EliminateFromDraws(univ, max_distance, specific_draws) ==
    /\ IF draws = << >>
       THEN /\ ret' = [NoCall EXCEPT !.op = "eliminate_from_draws",
                                     !.d = max_distance,
                                     !.arg = specific_draws]
            /\ UNCHANGED <<eliminated, elim_calls, sum_counts,
                           stats_requested>>
       ELSE LET todo == LastDraws(draws, specific_draws)
                r == DrawsLoop(univ, max_play, todo, max_distance,
                               eliminated, << >>)
            IN  /\ eliminated' = r.eliminated
                /\ ret' = [NoCall EXCEPT
                             !.op = "eliminate_from_draws",
                             !.d = max_distance, !.arg = specific_draws,
                             !.list = todo, !.counts = r.counts,
                             !.stats = print_statistics(total_combinations,
                                                        r.eliminated, draws)]
                /\ elim_calls' = elim_calls + Len(todo)
                /\ sum_counts' = sum_counts + SumSeq(r.counts)
                /\ stats_requested' = TRUE
    /\ calls' = calls + 1
    /\ UNCHANGED <<max_num, max_play, total_combinations, draws, vvars, tvars, svars, mvars>>

PrintStatistics ==
    /\ ret' = [NoCall EXCEPT !.op = "print_statistics",
                             !.stats = print_statistics(total_combinations,
                                                        eliminated, draws)]
    /\ stats_requested' = TRUE
    /\ calls' = calls + 1
    /\ UNCHANGED <<max_num, max_play, total_combinations, eliminated, draws,
                   elim_calls, sum_counts, vvars, tvars, svars, mvars>>

\* save_remaining(filename, format): ret.list is the list remaining,
\* ret.written what is written to the file, write by write; ret.arg is the
\* format
SaveRemaining(format) ==
    /\ ret' = [NoCall EXCEPT !.op = "save_remaining",
                             !.list = Remaining(U, eliminated),
                             !.written = save_remaining(Remaining(U,
                                                                  eliminated),
                                                        format),
                             !.arg = format]
    /\ stats_requested' = TRUE
    /\ calls' = calls + 1
    /\ UNCHANGED <<max_num, max_play, total_combinations, eliminated, draws,
                   elim_calls, sum_counts, vvars, tvars, svars, mvars>>

GetSampleRemaining(count) ==
    /\ ret' = [NoCall EXCEPT !.op = "get_sample_remaining",
                             !.arg = count,
                             !.list = get_sample_remaining(U, eliminated,
                                                           count)]
    /\ calls' = calls + 1
    /\ UNCHANGED <<max_num, max_play, total_combinations, eliminated, draws,
                   elim_calls, sum_counts, stats_requested, vvars, tvars, svars, mvars>>

\* calculate_distance(combo1, combo2): ret.d is the value returned
CalculateDistance(combo1, combo2) ==
    /\ ret' = [NoCall EXCEPT !.op = "calculate_distance",
                             !.draw = combo1, !.other = combo2,
                             !.d = calculate_distance(max_play, combo1,
                                                      combo2)]
    /\ calls' = calls + 1
    /\ UNCHANGED <<max_num, max_play, total_combinations, eliminated, draws,
                   elim_calls, sum_counts, stats_requested, vvars, tvars, svars, mvars>>

(***************************************************************************)
(* Spec: an engine of max_num <= MaxNum receives up to MaxCalls calls.      *)
(***************************************************************************)
Init ==
    /\ \E n \in 0..MaxNum : \E k \in 0..n : Construct(n, k)
    /\ VerifierAt("idle")
    /\ ToolsIdle
    /\ TrimIdle
    /\ ManagerIdle

CallEliminateByDistance ==
    /\ calls < MaxCalls
    /\ LET univ == U IN
         \E draw \in ToSet(univ) : \E d \in DistanceArgs :
            EliminateByDistance(univ, draw, d)

CallEliminateByDistanceEfficient ==
    /\ calls < MaxCalls
    /\ LET univ == U IN
         \E draw \in ToSet(univ) : \E d \in DistanceArgs :
            \E b \in BatchSizes :
               EliminateByDistanceEfficient(univ, draw, d, b)

CallLoadDraws ==
    /\ calls < MaxCalls
    /\ \E lines \in Files : LoadDraws(TRUE, lines)

CallLoadDrawsNoFile ==
    /\ calls < MaxCalls
    /\ LoadDraws(FALSE, << >>)

CallEliminateFromDraws ==
    /\ calls < MaxCalls
    /\ LET univ == U IN
         \E d \in DistanceArgs : \E N \in SpecificDraws :
            EliminateFromDraws(univ, d, N)

CallPrintStatistics ==
    /\ calls < MaxCalls
    /\ PrintStatistics

CallSaveRemaining ==
    /\ calls < MaxCalls
    /\ \E format \in {FormatText, FormatBinary} : SaveRemaining(format)

CallGetSampleRemaining ==
    /\ calls < MaxCalls
    /\ \E count \in SampleCounts : GetSampleRemaining(count)

Next ==
    \/ CallEliminateByDistance
    \/ CallEliminateByDistanceEfficient
    \/ CallLoadDraws
    \/ CallLoadDrawsNoFile
    \/ CallEliminateFromDraws
    \/ CallPrintStatistics
    \/ CallSaveRemaining
    \/ CallGetSampleRemaining

Spec == Init /\ [][Next]_vars

(***************************************************************************)
(* SpecFresh: a fresh engine of max_num <= MaxFreshNum receives one call of *)
(* eliminate_by_distance or of calculate_distance.                          *)
(***************************************************************************)
InitFresh ==
    /\ \E n \in 0..MaxFreshNum : \E k \in 0..n : Construct(n, k)
    /\ VerifierAt("idle")
    /\ ToolsIdle
    /\ TrimIdle
    /\ ManagerIdle

FreshEliminateByDistance ==
    /\ calls = 0
    /\ LET univ == U IN
         \E draw \in ToSet(univ) : \E d \in DistanceArgs :
            EliminateByDistance(univ, draw, d)

FreshCalculateDistance ==
    /\ calls = 0
    /\ LET univ == U IN
         \E a \in ToSet(univ) : \E b \in ToSet(univ) : CalculateDistance(a, b)

NextFresh ==
    \/ FreshEliminateByDistance
    \/ FreshCalculateDistance

SpecFresh == InitFresh /\ [][NextFresh]_vars

(***************************************************************************)
(* SpecPrior: an engine of max_num <= MaxPriorNum that holds any set of up  *)
(* to MaxPrior combinations of its universe (each one put there by          *)
(* eliminate_by_distance(c, 0)) receives one elimination call.              *)
(***************************************************************************)
\* the draws a caller passes: the first, the middle and the last combination
\* of the universe and a draw of numbers past max_num
PriorDraws ==
    {U[1], U[(Len(U) + 1) \div 2], U[Len(U)],
     [i \in 1..max_play |-> max_num + i]}

\* batch sizes a caller passes
PriorBatchSizes == {1, 2, DEFAULT_BATCH_SIZE}

\* the sets an engine holds before the call
PriorSets(n, k) ==
    {E \in SUBSET ToSet(Universe(n, k)) : Cardinality(E) <= MaxPrior}

InitPrior ==
    /\ \E n \in 0..MaxPriorNum : \E k \in 0..n :
          /\ max_num = n
          /\ max_play = k
          /\ total_combinations = calculate_total_combinations(n, k)
          /\ eliminated \in PriorSets(n, k)
          /\ draws \in {<< >>, <<Universe(n, k)[1]>>}
    /\ ret = NoCall
    /\ calls = 0
    /\ elim_calls = 0
    /\ sum_counts = 0
    /\ stats_requested = FALSE
    /\ VerifierAt("idle")
    /\ ToolsIdle
    /\ TrimIdle
    /\ ManagerIdle

PriorEliminateByDistance ==
    /\ calls = 0
    /\ LET univ == U IN
         \E draw \in PriorDraws : \E d \in DistanceArgs :
            EliminateByDistance(univ, draw, d)

PriorEliminateByDistanceEfficient ==
    /\ calls = 0
    /\ LET univ == U IN
         \E draw \in PriorDraws : \E d \in DistanceArgs :
            \E b \in PriorBatchSizes :
               EliminateByDistanceEfficient(univ, draw, d, b)

NextPrior ==
    \/ PriorEliminateByDistance
    \/ PriorEliminateByDistanceEfficient

SpecPrior == InitPrior /\ [][NextPrior]_vars

(***************************************************************************)
(* SpecVerify: one run of verify_4combo_strategy.py on a draw file of up to *)
(* MaxLines lines.                                                          *)
(***************************************************************************)
\* lines of the draw files the verifier reads: two well-formed draws (listed
\* in descending order), a draw with a repeated number, a draw with a number
\* past MAX, seven numbers of which one is past MAX, six numbers after a
\* token that is no number, six numbers after a token int() rejects, and a
\* comment
VerifyLines ==
    {NumLine(<<6, 5, 4, 3, 2, 1>>),
     NumLine(<<MAX, 7, 5, 3, 2, 1>>),
     NumLine(<<1, 1, 2, 3, 4, 5>>),
     NumLine(<<1, 2, 3, 4, 5, MAX + 1>>),
     NumLine(<<1, 2, 3, 4, MAX + 1, 5, 8>>),
     DataLine(<<NotNum>> \o Nums(<<2, 3, 5, 7, 11, 13>>)),
     DataLine(<<BadDigit>> \o Nums(<<2, 3, 5, 7, 11, 13>>)),
     Comment}

VerifyFiles == SeqsUpTo(VerifyLines, MaxLines)

InitVerify ==
    /\ Construct(0, 0)
    /\ VerifierAt("start")
    /\ ToolsIdle
    /\ TrimIdle
    /\ ManagerIdle

\* main: draws = load_draws(filename); no draws: sys.exit(1)
VerifyLoadDraws ==
    /\ v_pc = "start"
    /\ \E lines \in VerifyFiles :
          /\ v_draws' = verify_load_draws(lines)
          /\ v_pc' = IF verify_load_draws(lines) = << >> THEN "exit"
                     ELSE "loaded"
          /\ v_file' = lines
    /\ UNCHANGED <<drawn_4combos, v_out, evars, tvars, svars, mvars>>

\* main: drawn_4combos = analyze_4combos(draws)
VerifyAnalyze ==
    /\ v_pc = "loaded"
    /\ drawn_4combos' = analyze_4combos(v_draws)
    /\ v_pc' = "analyzed"
    /\ UNCHANGED <<v_draws, v_out, v_file, evars, tvars, svars, mvars>>

\* main: remaining = verify_totals(drawn_4combos, len(draws))
VerifyTotals ==
    /\ v_pc = "analyzed"
    /\ LET t == verify_totals(drawn_4combos, Len(v_draws))
       IN  v_out' = [NoOutput EXCEPT !.drawn_count = t.drawn_count,
                                     !.remaining = t.remaining,
                                     !.max_possible = t.max_possible,
                                     !.overlap = t.overlap]
    /\ v_pc' = "verified"
    /\ UNCHANGED <<v_draws, drawn_4combos, v_file, evars, tvars, svars, mvars>>

\* sample_remaining_4combos(drawn_4combos, count); main passes 10
VerifySample ==
    /\ v_pc = "verified"
    /\ \E count \in SampleCounts :
          v_out' = [v_out EXCEPT
                      !.count = count,
                      !.printed = sample_remaining_4combos(drawn_4combos,
                                                           count)]
    /\ v_pc' = "sampled"
    /\ UNCHANGED <<v_draws, drawn_4combos, v_file, evars, tvars, svars, mvars>>

NextVerify ==
    \/ VerifyLoadDraws
    \/ VerifyAnalyze
    \/ VerifyTotals
    \/ VerifySample

SpecVerify == InitVerify /\ [][NextVerify]_vars

(***************************************************************************)
(* SpecTrim: one session of trim_set_played(show, max_play) with            *)
(* max_play = MAX_PLAY, of up to MaxPasses passes.  A pass may fail with an *)
(* I/O error and os.replace may fail; os.remove of an existing temp file    *)
(* succeeds.                                                                *)
(***************************************************************************)
\* names typed at 'Input file name'
TrimNames ==
    {<<"d", ".", "t">>, <<"d", ".", "b">>, <<"d">>, <<"D", "B">>,
     <<".", "/", "d">>}

\* the content of the input file: records of MAX_PLAY numbers, as text lines
\* or as bytes followed by a byte left over
TrimContent(f_name) ==
    IF is_binary_file(f_name)
    THEN var_to_bin(<<1, 2, 3, 4, 5, 6>>)
         \o var_to_bin(<<10, 11, 12, 13, 14, 15>>)
         \o var_to_bin(<<10, 11, 12, 13, 14, MAX>>) \o <<tochar(1)>>
    ELSE <<TextRecord(<<10, 11, 12, 13, 14, 15>>) \o <<"\n">>,
           HeaderLine,
           TextRecord(<<10, 11, 12, 13, 14, MAX>>) \o <<"\n">>,
           TextRecord(<<12, 13, 14, 16, 17, 18>>) \o <<"\n">>>>

\* entries typed at 'Trim number'
TrimEntries ==
    {<<"x">>, <<"0">>, <<"1">>, <<"1", "5">>, <<"4", "9">>, <<"5", "0">>}

InitTrim ==
    /\ Construct(0, 0)
    /\ VerifierAt("idle")
    /\ ToolsIdle
    /\ TrimIdle
    /\ ManagerIdle

\* the file name typed names no file: 'Cannot open file'
TrimNoFile ==
    /\ s_pc = "idle"
    /\ \E f_name \in TrimNames : s_name' = f_name
    /\ s_pc' = "done"
    /\ UNCHANGED <<s_fs, s_i, s_o, s_in, s_passes, s_opened, s_written,
                   evars, vvars, tvars, mvars>>

\* the file exists (and a temp file of an earlier session may): i_name is
\* the file, o_name is temp_a
TrimStart ==
    /\ s_pc = "idle"
    /\ \E f_name \in TrimNames : \E stale \in BOOLEAN :
          /\ s_name' = f_name
          /\ s_fs' = LET fs == Put(<< >>, f_name, TrimContent(f_name))
                     IN  IF stale THEN Put(fs, TempB(f_name), << >>) ELSE fs
          /\ s_i' = f_name
          /\ s_o' = TempA(f_name)
    /\ s_pc' = "prompt"
    /\ UNCHANGED <<s_in, s_passes, s_opened, s_written,
                   evars, vvars, tvars, mvars>>

\* an entry that is no number, or a number outside 1..max_val: continue
TrimBadEntry ==
    /\ s_pc = "prompt"
    /\ \E entry \in TrimEntries :
          /\ \/ EntryInt(entry) = ValueError
             \/ (EntryInt(entry) # 0
                 /\ (EntryInt(entry) < 1
                     \/ EntryInt(entry) > MaxVal(MAX_PLAY)))
          /\ s_in' = entry
    /\ UNCHANGED <<s_pc, s_name, s_fs, s_i, s_o, s_passes, s_opened,
                   s_written, evars, vvars, tvars, mvars>>

\* the entry 0: break
TrimFinish ==
    /\ s_pc = "prompt"
    /\ \E entry \in TrimEntries :
          /\ EntryInt(entry) = 0
          /\ s_in' = entry
    /\ s_pc' = "save"
    /\ UNCHANGED <<s_name, s_fs, s_i, s_o, s_passes, s_opened, s_written,
                   evars, vvars, tvars, mvars>>

\* a trim number: process_binary or process_text reads i_name and writes
\* o_name, then the names are swapped
TrimPass ==
    /\ s_pc = "prompt"
    /\ s_passes < MaxPasses
    /\ \E entry \in TrimEntries :
          LET num == EntryInt(entry)
              done == IF is_binary_file(s_name)
                      THEN process_binary(s_fs[s_i], num, MAX_PLAY)
                      ELSE process_text(s_fs[s_i], num, MAX_PLAY)
          IN  /\ num # ValueError /\ num >= 1 /\ num <= MaxVal(MAX_PLAY)
              /\ s_in' = entry
              /\ s_fs' = Put(s_fs, s_o, done.written)
    /\ s_opened' = Append(s_opened, [read |-> s_i, write |-> s_o])
    /\ s_written' = s_written \cup {s_o}
    /\ s_i' = s_o
    /\ s_o' = NextOutput(s_o, TempA(s_name), TempB(s_name))
    /\ s_passes' = s_passes + 1
    /\ UNCHANGED <<s_pc, s_name, evars, vvars, tvars, mvars>>

\* a trim number, and an exception while the files are processed: the
\* output file was created or not; break without swapping the names
TrimPassFails ==
    /\ s_pc = "prompt"
    /\ s_passes < MaxPasses
    /\ \E entry \in TrimEntries : \E created \in BOOLEAN :
          LET num == EntryInt(entry)
          IN  /\ num # ValueError /\ num >= 1 /\ num <= MaxVal(MAX_PLAY)
              /\ s_in' = entry
              /\ s_fs' = IF created THEN Put(s_fs, s_o, << >>) ELSE s_fs
              /\ s_opened' = Append(s_opened, [read |-> s_i, write |-> s_o])
              /\ s_written' = IF created THEN s_written \cup {s_o}
                              ELSE s_written
    /\ s_passes' = s_passes + 1
    /\ s_pc' = "save"
    /\ UNCHANGED <<s_name, s_i, s_o, evars, vvars, tvars, mvars>>

\* 'Save final result': after a pass, os.replace(i_name, output_name), which
\* may raise (caught)
TrimSave ==
    /\ s_pc = "save"
    /\ IF s_i # s_name /\ Exists(s_fs, s_i)
       THEN \E raises \in BOOLEAN :
               IF raises THEN UNCHANGED <<s_fs, s_written>>
               ELSE /\ s_fs' = Remove(Put(s_fs, OutputName(s_name),
                                          s_fs[s_i]), s_i)
                    /\ s_written' = s_written \cup {OutputName(s_name)}
       ELSE UNCHANGED <<s_fs, s_written>>
    /\ s_pc' = "cleanup"
    /\ UNCHANGED <<s_name, s_i, s_o, s_in, s_passes, s_opened,
                   evars, vvars, tvars, mvars>>

\* 'Clean up temp files': os.remove of temp_a and temp_b where they exist
TrimCleanup ==
    /\ s_pc = "cleanup"
    /\ s_fs' = Remove(Remove(s_fs, TempA(s_name)), TempB(s_name))
    /\ s_pc' = "done"
    /\ UNCHANGED <<s_name, s_i, s_o, s_in, s_passes, s_opened, s_written,
                   evars, vvars, tvars, mvars>>

NextTrim ==
    \/ TrimNoFile
    \/ TrimStart
    \/ TrimBadEntry
    \/ TrimFinish
    \/ TrimPass
    \/ TrimPassFails
    \/ TrimSave
    \/ TrimCleanup

SpecTrim == InitTrim /\ [][NextTrim]_vars

(***************************************************************************)
(* SpecTools: one call of a function of the codec, of the trim tool or of   *)
(* a converter.                                                             *)
(***************************************************************************)
\* numbers a caller encodes, and bytes a caller decodes
Bytes == 0..255

\* playable numbers the combinations of the tools are drawn from, and the
\* lengths of those combinations
PlayPool == <<1, 2, 3, 4, 5, 6, 10, MAX>>
ComboLens == {0, 1, 2, MAX_PLAY}
Combos == UNION {ToSet(combinations(PlayPool, k)) : k \in ComboLens}

\* binary files: up to MaxBytes bytes, each the byte of the number 1 or a
\* byte below SP
FileBytes == {tochar(1), 10}
BinFiles == SeqsUpTo(FileBytes, MaxBytes)

\* record widths: main() lets 6 and 7 through; the functions take any
RecordWidths == {2, 3, MAX_PLAY, MAX_PLAY + 1}

\* dates of the lines the converters read
\* a number below 100 in two digits
TwoDigits(n) == IF n < 10 THEN <<"0">> \o str(n) ELSE str(n)

\* the date YYMMDD
Date(yy, mm, dd) == TwoDigits(yy) \o TwoDigits(mm) \o TwoDigits(dd)
TxtDates ==
    {Date(25, 10, 25), Date(49, 12, 31), Date(50, 1, 1), Date(99, 12, 31),
     <<"2", "x", "1", "2", "3", "1">>, <<"2", "5", "1", "0", "2">>}

\* number lists of those lines
TxtNumbers ==
    {<<6, 9, 13, 21, 24, 38>>, <<38, 24, 21, 13, 9, 6>>,
     <<1, 2, 3, 4, 5, 6>>, <<1, 3, 5, 8, 11, 11>>,
     <<1, 2, 3, 4, MAX + 1, 5, 8>>, <<1, 2, 3, 4, 5>>}

\* lines a converter parses: 'YYMMDD: n1, ..., n6 / bonus', the same with
\* the numbers and the bonus separated by commas only, with a token that is
\* no number, with a token int() rejects, with two '/', with a second ':',
\* and the lines that are no draws
TxtLines ==
    {TxtLine(d, 1, Nums(n), <<Num(5)>>) : d \in TxtDates, n \in TxtNumbers}
    \cup {TxtLine(d, 1, <<NotNum>> \o Nums(n) \o <<Num(5)>>, << >>) :
             d \in TxtDates, n \in TxtNumbers}
    \cup {TxtLine(Date(25, 10, 25), 1, Nums(<<1, 2, 3, 4, 5, 6>>), a) :
             a \in {<<NotNum>>, <<BadDigit>>, <<Num(MAX + 1)>>,
                    <<Num(5), Num(7)>>}}
    \cup {TxtLine(Date(25, 10, 25), 1, t, <<Num(5)>>) :
             t \in {<<BadDigit>> \o Nums(<<1, 2, 3, 4, 5, 6>>),
                    <<NotNum>> \o Nums(<<1, 2, 3, 4, 5, 6>>)}}
    \cup {TxtLine(Date(25, 10, 25), 2, Nums(<<1, 2, 3, 4, 5, 6>>),
                  <<Num(5)>>),
          Blank, Comment, NoColon}

\* lines of the files a converter reads
TxtFileLines ==
    {TxtLine(Date(25, 10, 25), 1, Nums(<<1, 2, 3, 4, 5, 6>>), <<Num(7)>>),
     TxtLine(Date(25, 10, 25), 1, Nums(<<6, 9, 13, 21, 24, 38>>),
             <<Num(5)>>),
     TxtLine(Date(25, 1, 4), 1, Nums(<<1, 2, 3, 4, 5, 6>>), <<Num(7)>>),
     TxtLine(Date(99, 12, 31), 1, Nums(<<1, 2, 3, 4, 5, 6>>), <<Num(7)>>),
     TxtLine(<<"2", "x", "1", "2", "3", "1">>, 1,
             Nums(<<1, 2, 3, 4, 5, 6>>), <<Num(7)>>),
     TxtLine(Date(25, 10, 25), 1, Nums(<<1, 2, 3>>), <<Num(7)>>),
     TxtLine(Date(25, 10, 25), 1, <<BadDigit>> \o Nums(<<1, 2, 3, 4, 5, 6>>),
             <<Num(7)>>),
     Comment, Blank, NoColon}

TxtFiles == SeqsUpTo(TxtFileLines, MaxLines)

\* combinations of the text files the trim tool reads, and the lines of those
\* files: the records save_remaining writes, a header line and an empty line
TextCombos ==
    {<<1, 2, 3, 4, 5, 6>>, <<10, 11, 12, 13, 14, 15>>,
     <<10, 11, 12, 13, 14, MAX>>, <<10, 15>>}
TextFileLines ==
    {TextRecord(c) \o <<"\n">> : c \in TextCombos}
    \cup {HeaderLine, <<"\n">>}
TextFiles == SeqsUpTo(TextFileLines, MaxLines)

\* draws the verifier analyzes: in ascending order, in descending order, in
\* no order, and one with a repeated number
ToolDraws ==
    {<<1, 2, 3, 4, 5, 6>>, <<6, 5, 4, 3, 2, 1>>, <<1, 2, 3, 4, 5, 10>>,
     <<3, 4, 5, 6, 10, MAX>>, <<10, 1, MAX, 2, 6, 4>>, <<1, 1, 2, 3, 4, 5>>}

\* lists of at least one draw (main exits when no draw is loaded)
ToolDrawLists == SeqsUpTo(ToolDraws, MaxLines) \ {<< >>}

InitTools ==
    /\ Construct(0, 0)
    /\ VerifierAt("idle")
    /\ ToolsIdle
    /\ TrimIdle
    /\ ManagerIdle

\* tochar(v) and unchar(v), and each applied to the result of the other
ToolCodec ==
    /\ t_op = "idle"
    /\ \E v \in Bytes :
          /\ t_in' = v
          /\ t_out' = [tochar |-> tochar(v), unchar |-> unchar(v),
                       unchar_tochar |-> unchar(tochar(v)),
                       tochar_unchar |-> tochar(unchar(v))]
    /\ t_op' = "codec"
    /\ UNCHANGED <<evars, vvars, svars, mvars>>

\* var_to_bin(c), and the decoders applied to it
ToolVarToBin ==
    /\ t_op = "idle"
    /\ \E c \in Combos :
          /\ t_in' = c
          /\ t_out' = [bin |-> var_to_bin(c),
                       var |-> bin_to_var(var_to_bin(c), Len(c)),
                       variant |-> bin_to_variant(var_to_bin(c), Len(c))]
    /\ t_op' = "var_to_bin"
    /\ UNCHANGED <<evars, vvars, svars, mvars>>

\* list_binary(filename, max_play)
ToolListBinary ==
    /\ t_op = "idle"
    /\ \E data \in BinFiles : \E width \in RecordWidths :
          /\ t_in' = [data |-> data, max_play |-> width]
          /\ t_out' = list_binary(data, width)
    /\ t_op' = "list_binary"
    /\ UNCHANGED <<evars, vvars, svars, mvars>>

\* process_binary(i_name, o_name, num, max_play, show)
ToolProcessBinary ==
    /\ t_op = "idle"
    /\ \E data \in BinFiles : \E width \in RecordWidths :
          /\ t_in' = [data |-> data, max_play |-> width, num |-> 1]
          /\ t_out' = process_binary(data, 1, width)
    /\ t_op' = "process_binary"
    /\ UNCHANGED <<evars, vvars, svars, mvars>>

\* read_variant_text on the line save_remaining writes for c
ToolReadVariantText ==
    /\ t_op = "idle"
    /\ \E c \in Combos :
          /\ t_in' = c
          /\ t_out' = [line |-> TextRecord(c) \o <<"\n">>,
                       variant |-> read_variant_text(TextRecord(c)
                                                     \o <<"\n">>)]
    /\ t_op' = "read_variant_text"
    /\ UNCHANGED <<evars, vvars, svars, mvars>>

\* txt_to_json_converter.parse_draw_line(line)
ToolParseDrawLine ==
    /\ t_op = "idle"
    /\ \E line \in TxtLines :
          /\ t_in' = line
          /\ t_out' = parse_draw_line(line)
    /\ t_op' = "parse_draw_line"
    /\ UNCHANGED <<evars, vvars, svars, mvars>>

\* 649CA.parse_txt_line(line)
ToolParseTxtLine ==
    /\ t_op = "idle"
    /\ \E line \in TxtLines :
          /\ t_in' = line
          /\ t_out' = parse_txt_line(line)
    /\ t_op' = "parse_txt_line"
    /\ UNCHANGED <<evars, vvars, svars, mvars>>

\* txt_to_json_converter.convert_txt_to_json(input_file, output_file)
ToolConvertTxtToJson ==
    /\ t_op = "idle"
    /\ \E lines \in TxtFiles :
          /\ t_in' = lines
          /\ t_out' = convert_txt_to_json(lines)
    /\ t_op' = "convert_txt_to_json"
    /\ UNCHANGED <<evars, vvars, svars, mvars>>

\* 649CA.convert_txt_to_json(input_file, output_file)
ToolConvertTxtToJsonCA ==
    /\ t_op = "idle"
    /\ \E lines \in TxtFiles :
          /\ t_in' = lines
          /\ t_out' = convert_txt_to_json_CA(lines)
    /\ t_op' = "convert_txt_to_json_CA"
    /\ UNCHANGED <<evars, vvars, svars, mvars>>

\* verify_4combo_strategy: analyze_4combos(draws), which calls
\* get_4combos_from_6 on every draw, then verify_totals
ToolAnalyze4Combos ==
    /\ t_op = "idle"
    /\ \E drawlist \in ToolDrawLists :
          /\ t_in' = drawlist
          /\ t_out' = [combos |-> [i \in 1..Len(drawlist) |->
                                     get_4combos_from_6(drawlist[i])],
                       drawn  |-> analyze_4combos(drawlist),
                       totals |-> verify_totals(analyze_4combos(drawlist),
                                                Len(drawlist))]
    /\ t_op' = "analyze_4combos"
    /\ UNCHANGED <<evars, vvars, svars, mvars>>

\* process_text(i_name, o_name, num, max_play, show)
ToolProcessText ==
    /\ t_op = "idle"
    /\ \E lines \in TextFiles : \E width \in {2, MAX_PLAY} :
          /\ t_in' = [lines |-> lines, max_play |-> width, num |-> 15]
          /\ t_out' = process_text(lines, 15, width)
    /\ t_op' = "process_text"
    /\ UNCHANGED <<evars, vvars, svars, mvars>>

NextTools ==
    \/ ToolCodec
    \/ ToolVarToBin
    \/ ToolListBinary
    \/ ToolProcessBinary
    \/ ToolReadVariantText
    \/ ToolParseDrawLine
    \/ ToolParseTxtLine
    \/ ToolConvertTxtToJson
    \/ ToolConvertTxtToJsonCA
    \/ ToolAnalyze4Combos
    \/ ToolProcessText

SpecTools == InitTools /\ [][NextTools]_vars

(***************************************************************************)
(* LotteryFileManager.  A JSON file is no JSON at all, or an object with or *)
(* without the field 'draws'; a draw is an object with numbers and bonus,   *)
(* with or without the field 'date'.  a_649.txt is the sequence of its      *)
(* lines, in the form the converters read.                                  *)
(***************************************************************************)
NotJson == [exists |-> TRUE, json |-> FALSE, has_draws |-> FALSE,
            draws |-> << >>]
JsonObject(has_draws, drawlist) ==
    [exists |-> TRUE, json |-> TRUE, has_draws |-> has_draws,
     draws |-> drawlist]
JsonDraw(has_date, date, numbers, bonus) ==
    [has_date |-> has_date, date |-> date, numbers |-> numbers,
     bonus |-> bonus]
TxtFile(lines) == [exists |-> TRUE, lines |-> lines]

\* the days of a month
DaysInMonth(y, mo) ==
    IF mo \in {4, 6, 9, 11} THEN 30
    ELSE IF mo # 2 THEN 31
    ELSE IF y % 4 = 0 /\ (y % 100 # 0 \/ y % 400 = 0) THEN 29
    ELSE 28

\* datetime.strptime(date, '%Y-%m-%d'): ok is FALSE where it raises
strptime(date) ==
    LET parts == split(date, "-")
        shaped == /\ Len(parts) = 3
                  /\ \A i \in 1..3 : isdigit(parts[i])
                  /\ Len(parts[1]) = 4
                  /\ Len(parts[2]) \in 1..2
                  /\ Len(parts[3]) \in 1..2
    IN  IF ~shaped THEN [ok |-> FALSE, y |-> 0, mo |-> 0, d |-> 0]
        ELSE LET y == int(parts[1])
                 mo == int(parts[2])
                 d == int(parts[3])
             IN  [ok |-> y >= 1 /\ mo \in 1..12
                         /\ d >= 1 /\ d <= DaysInMonth(y, mo),
                  y |-> y, mo |-> mo, d |-> d]

\* date_obj.strftime('%y%m%d')
strftime(t) == TwoDigits(t.y % 100) \o TwoDigits(t.mo) \o TwoDigits(t.d)

\* update_txt_file: the loop over draws_sorted; the lines written until
\* strptime raises
RECURSIVE UpdateLoop(_)
UpdateLoop(draws_sorted) ==
    IF draws_sorted = << >> THEN [ok |-> TRUE, lines |-> << >>]
    ELSE LET draw == Head(draws_sorted)
             date_obj == strptime(draw.date)
             rest == UpdateLoop(Tail(draws_sorted))
         IN  IF ~date_obj.ok THEN [ok |-> FALSE, lines |-> << >>]
             ELSE [ok |-> rest.ok,
                   lines |-> <<TxtLine(strftime(date_obj), 1,
                                       Nums(draw.numbers),
                                       <<Num(draw.bonus)>>)>> \o rest.lines]

\* update_txt_file(draws) with a_649.txt being txt: the value returned and
\* the file left; sorted() raises for a draw without 'date' before the file
\* is opened, an exception in the loop leaves the lines written so far
update_txt_file(drawlist, txt) ==
    IF \E i \in 1..Len(drawlist) : ~drawlist[i].has_date
    THEN [ok |-> FALSE, txt |-> txt]
    ELSE LET w == UpdateLoop(sort_by_date(drawlist))
         IN  [ok |-> w.ok,
              txt |-> TxtFile(<<Comment, Comment, Comment, Comment>>
                              \o w.lines)]

\* faulty variant of process_downloaded_file: lottery-data-new.json is
\* overwritten without being renamed to lottery-data-old.json first
process_downloaded_file_NoRotation(fs) ==
    IF ~fs.download.exists \/ ~fs.download.json
    THEN [ok |-> FALSE, why |-> "exception", txt_ok |-> FALSE, fs |-> fs]
    ELSE IF ~fs.download.has_draws
    THEN [ok |-> FALSE, why |-> "no draws", txt_ok |-> FALSE, fs |-> fs]
    ELSE LET u == update_txt_file(fs.download.draws, fs.txt_file)
         IN  [ok |-> TRUE, why |-> "", txt_ok |-> u.ok,
              fs |-> [download |-> Absent, json_new |-> fs.download,
                      json_old |-> fs.json_old, txt_file |-> u.txt]]

\* process_downloaded_file(download_json) on the files fs: the value
\* returned, what update_txt_file returned, and the files left
process_downloaded_file(fs) ==
    IF ~fs.download.exists \/ ~fs.download.json
    THEN [ok |-> FALSE, why |-> "exception", txt_ok |-> FALSE, fs |-> fs]
    ELSE IF ~fs.download.has_draws
    THEN [ok |-> FALSE, why |-> "no draws", txt_ok |-> FALSE, fs |-> fs]
    ELSE LET u == update_txt_file(fs.download.draws, fs.txt_file)
         IN  [ok |-> TRUE, why |-> "", txt_ok |-> u.ok,
              fs |-> [download |-> Absent, json_new |-> fs.download,
                      json_old |-> IF fs.json_new.exists THEN fs.json_new
                                   ELSE fs.json_old,
                      txt_file |-> u.txt]]

(***************************************************************************)
(* SpecManager: files arrive in Downloads and process_downloaded_file is    *)
(* called up to MaxDownloads times on one lottery folder.                   *)
(***************************************************************************)
\* draws of the files downloaded
DrawA == JsonDraw(TRUE, <<"2", "0", "2", "5", "-", "1", "0", "-", "2", "5">>,
                  <<1, 2, 3, 4, 5, 6>>, 7)
DrawB == JsonDraw(TRUE, <<"1", "9", "9", "9", "-", "1", "2", "-", "3", "1">>,
                  <<6, 9, 13, 21, 24, 38>>, 5)
DrawBadDate ==
    JsonDraw(TRUE, <<"2", "0", "2", "5", "-", "1", "3", "-", "0", "1">>,
             <<1, 2, 3, 4, 5, 6>>, 7)
DrawNoDate == JsonDraw(FALSE, << >>, <<1, 2, 3, 4, 5, 6>>, 7)

\* the files downloaded
Downloads ==
    {JsonObject(TRUE, << >>),
     JsonObject(TRUE, <<DrawA>>),
     JsonObject(TRUE, <<DrawA, DrawB>>),
     JsonObject(TRUE, <<DrawBadDate, DrawB, DrawA>>),
     JsonObject(TRUE, <<DrawNoDate>>),
     JsonObject(FALSE, << >>),
     NotJson}

\* a folder with no file, or with an a_649.txt kept by hand
InitManager ==
    /\ Construct(0, 0)
    /\ VerifierAt("idle")
    /\ ToolsIdle
    /\ TrimIdle
    /\ m_fs \in {[download |-> Absent, json_new |-> Absent,
                   json_old |-> Absent, txt_file |-> t] :
                     t \in {Absent, TxtFile(<<Comment>>)}}
    /\ m_ret = [op |-> "init", ok |-> TRUE, why |-> "", txt_ok |-> TRUE]
    /\ m_calls = 0

\* the browser saves lottery-data.json in Downloads
BrowserDownload ==
    /\ m_calls < MaxDownloads
    /\ \E file \in Downloads : m_fs' = [m_fs EXCEPT !.download = file]
    /\ UNCHANGED <<m_ret, m_calls, evars, vvars, tvars, svars>>

\* process_downloaded_file(download_json)
ProcessDownloadedFile ==
    /\ m_calls < MaxDownloads
    /\ LET r == process_downloaded_file(m_fs)
       IN  /\ m_fs' = r.fs
           /\ m_ret' = [op |-> "process_downloaded_file", ok |-> r.ok,
                        why |-> r.why, txt_ok |-> r.txt_ok]
    /\ m_calls' = m_calls + 1
    /\ UNCHANGED <<evars, vvars, tvars, svars>>

NextManager ==
    \/ BrowserDownload
    \/ ProcessDownloadedFile

SpecManager == InitManager /\ [][NextManager]_vars

(***************************************************************************)
(* Notions the claims are stated with, defined from sets of numbers and not *)
(* from the code.                                                           *)
(***************************************************************************)
\* the k-subsets of {1..n}
KSubsets(n, k) == {S \in SUBSET (1..n) : Cardinality(S) = k}

\* c is a strictly increasing k-tuple of numbers of 1..n
IsCombination(c, n, k) ==
    /\ Len(c) = k
    /\ \A i \in 1..k : c[i] \in 1..n
    /\ \A i \in 1..(k - 1) : c[i] < c[i + 1]

\* a comes before b in lexicographic order (tuples of one length)
LexLess(a, b) ==
    \E i \in 1..Len(a) :
        /\ \A j \in 1..(i - 1) : a[j] = b[j]
        /\ a[i] < b[i]

\* the binomial coefficient, by the product formula
RECURSIVE Binomial(_, _)
Binomial(n, k) ==
    IF k = 0 THEN 1 ELSE (Binomial(n, k - 1) * (n - k + 1)) \div k

\* the combinations of the engine's universe that share exactly
\* max_play - d numbers with draw
Shell(draw, d) ==
    {c \in ToSet(U) :
        Cardinality({i \in 1..Len(c) : c[i] \in ToSet(draw)}) = max_play - d}

\* the step is a call of the method op
Called(op) == calls' = calls + 1 /\ ret'.op = op

\* the first m elements of a sequence
Prefix(seq, m) == SubSeq(seq, 1, IF m < Len(seq) THEN m ELSE Len(seq))

(***************************************************************************)
(* The claims.                                                              *)
(***************************************************************************)
\* C1: on a fresh engine, eliminate_by_distance(draw, d) with draw in the
\* universe and d in 0..k returns, and leaves in eliminated, as many
\* combinations as there are k-subsets of 1..n sharing exactly k - d numbers
\* with the draw, which is C(k, k-d) * C(n-k, d).
C1_FreshEliminationCount ==
    (ret.op = "eliminate_by_distance" /\ elim_calls = 1 /\ calls = 1) =>
        LET sharing == {S \in KSubsets(max_num, max_play) :
                          Cardinality(S \cap ToSet(ret.draw))
                              = max_play - ret.d}
        IN  /\ ret.count = Cardinality(sharing)
            /\ Cardinality(eliminated) = Cardinality(sharing)
            /\ Cardinality(sharing)
                 = Binomial(max_play, max_play - ret.d)
                     * Binomial(max_num - max_play, ret.d)

C1_Witness ==
    /\ ret.op = "eliminate_by_distance"
    /\ calls = 1
    /\ max_num = 5 /\ max_play = 2 /\ ret.d = 1
    /\ ret.count = 6
    /\ Cardinality(eliminated) = 6

\* C2: no call on an engine removes a member of eliminated: the set after
\* every step contains the set before it.
C2_EliminatedMonotone == [][eliminated \subseteq eliminated']_vars

C2_Witness ==
    /\ calls = 2
    /\ ret.op = "eliminate_by_distance_efficient"
    /\ ret.count > 0
    /\ Cardinality(eliminated) > ret.count

\* C3: the counts returned by the elimination loops run so far add up to
\* len(eliminated), and a call that repeats the (draw, d) of the call before
\* it returns 0 and leaves eliminated as it was.
C3_CountsSumToSize ==
    /\ [](sum_counts = Cardinality(eliminated))
    /\ [][(/\ ret.op \in {"eliminate_by_distance",
                          "eliminate_by_distance_efficient"}
           /\ \/ Called("eliminate_by_distance")
              \/ Called("eliminate_by_distance_efficient")
           /\ ret'.draw = ret.draw
           /\ ret'.d = ret.d)
          => (ret'.count = 0 /\ eliminated' = eliminated)]_vars

C3_Witness ==
    /\ elim_calls = 2
    /\ ret.op = "eliminate_by_distance_efficient"
    /\ ret.count = 0
    /\ Shell(ret.draw, ret.d) # {}
    /\ eliminated = Shell(ret.draw, ret.d)
    /\ sum_counts = Cardinality(eliminated)

\* C4: when eliminate_by_distance is called twice in a row for one draw with
\* distances d1 # d2, starting from a fresh engine, no combination at
\* distance d2 was eliminated by the first call, the second call returns the
\* full number of combinations at distance d2, and len(eliminated) is the sum
\* of the two counts.
C4_DistancesDisjoint ==
    [][(/\ ret.op = "eliminate_by_distance"
        /\ elim_calls = 1
        /\ Called("eliminate_by_distance")
        /\ ret'.draw = ret.draw
        /\ ret'.d # ret.d)
       => (/\ Shell(ret.draw, ret'.d) \cap eliminated = {}
           /\ eliminated' \ eliminated = Shell(ret.draw, ret'.d)
           /\ ret'.count = Cardinality(Shell(ret.draw, ret'.d))
           /\ Cardinality(eliminated') = ret.count + ret'.count)]_vars

C4_Witness ==
    /\ ret.op = "eliminate_by_distance"
    /\ elim_calls = 2
    /\ calls = 2
    /\ ret.count > 0
    /\ \E d1 \in DistanceArgs \ {ret.d} :
          /\ Shell(ret.draw, d1) # {}
          /\ eliminated = Shell(ret.draw, d1) \cup Shell(ret.draw, ret.d)
          /\ Cardinality(eliminated)
               = Cardinality(Shell(ret.draw, d1)) + ret.count

\* C5: for combinations a, b of length k = max_play, calculate_distance is
\* symmetric, is 0 on (a, a), lies in 0..k, and equals k minus the number of
\* numbers of a that occur in b.
C5_DistanceLaws ==
    ret.op = "calculate_distance" =>
        LET a == ret.draw
            b == ret.other
            common == Cardinality({i \in 1..Len(a) :
                                     \E j \in 1..Len(b) : a[i] = b[j]})
        IN  /\ ret.d = calculate_distance(max_play, b, a)
            /\ calculate_distance(max_play, a, a) = 0
            /\ calculate_distance(max_play, b, b) = 0
            /\ ret.d \in 0..max_play
            /\ ret.d = max_play - common

C5_Witness ==
    /\ ret.op = "calculate_distance"
    /\ ret.draw # ret.other
    /\ ret.d > 0
    /\ ret.d < max_play

\* C6: for 0 <= k <= n the walk over combinations(range(1, n + 1), k) yields
\* exactly total_combinations = C(n, k) tuples, each strictly increasing
\* within 1..n, pairwise distinct, in strictly ascending lexicographic order.
C6_UniverseWalk ==
    LET univ == U
    IN  /\ Len(univ) = total_combinations
        /\ Len(univ) = Cardinality(KSubsets(max_num, max_play))
        /\ Len(univ) = Binomial(max_num, max_play)
        /\ \A i \in 1..Len(univ) : IsCombination(univ[i], max_num, max_play)
        /\ \A i \in 1..Len(univ) : \A j \in 1..Len(univ) :
              i # j => univ[i] # univ[j]
        /\ \A i \in 1..(Len(univ) - 1) : LexLess(univ[i], univ[i + 1])

C6_Witness ==
    /\ max_num = 5
    /\ max_play = 3
    /\ total_combinations = 10
    /\ ret.op = "eliminate_by_distance"
    /\ U[1] = <<1, 2, 3>>
    /\ U[10] = <<3, 4, 5>>

\* C7: in every state of an engine, eliminated holds only combinations of
\* the universe, and the number of combinations save_remaining writes plus
\* len(eliminated) is total_combinations, so the Remaining figure printed is
\* the size of the complement.
C7_ComplementSize ==
    /\ \A c \in eliminated : IsCombination(c, max_num, max_play)
    /\ Len(Remaining(U, eliminated)) + Cardinality(eliminated)
         = total_combinations
    /\ ret.op = "save_remaining" =>
         Len(ret.list) = total_combinations - Cardinality(eliminated)
    /\ ret.stats # NoStats =>
         ret.stats.remaining
           = Cardinality({S \in KSubsets(max_num, max_play) :
                            \A c \in eliminated : ToSet(c) # S})

C7_Witness ==
    /\ ret.op = "save_remaining"
    /\ eliminated # {}
    /\ ret.list # << >>
    /\ Len(ret.list) + Cardinality(eliminated) = total_combinations

\* C8: for every list of draws load_draws returns, the remaining count of
\* verify_totals, TOTAL_4_COMBOS - len(drawn_4combos), is the number of
\* 4-subsets of 1..49 not in drawn_4combos, and every member of
\* drawn_4combos is a strictly increasing 4-tuple of numbers of 1..49.
C8_RemainingIsComplement ==
    v_pc \in {"verified", "sampled"} =>
        /\ v_out.remaining
             = Binomial(MAX, 4)
                 - Cardinality({c \in drawn_4combos : IsCombination(c, MAX, 4)})
        /\ \A c \in drawn_4combos : IsCombination(c, MAX, 4)

\* C9 as claimed: once print_statistics or save_remaining has run, a later
\* eliminate_by_distance, eliminate_by_distance_efficient or
\* eliminate_from_draws leaves eliminated unchanged.
C9_NoEliminationOnceFinalized ==
    [][(/\ stats_requested
        /\ \/ Called("eliminate_by_distance")
           \/ Called("eliminate_by_distance_efficient")
           \/ Called("eliminate_from_draws"))
       => eliminated' = eliminated]_vars

\* the combinations at distance d of one of the draws of a list
RECURSIVE Shells(_, _)
Shells(drawlist, d) ==
    IF drawlist = << >> THEN {}
    ELSE Shell(Head(drawlist), d) \cup Shells(Tail(drawlist), d)

\* C9 as amended: print_statistics and save_remaining leave eliminated
\* unchanged and do not finalize the engine: an elimination call made after
\* them is accepted, and leaves eliminated equal to the set before it united
\* with the combinations at the requested distance.
C9_StatisticsDoNotFinalize ==
    [][/\ (Called("print_statistics") \/ Called("save_remaining"))
            => eliminated' = eliminated
       /\ (stats_requested /\ (\/ Called("eliminate_by_distance")
                               \/ Called("eliminate_by_distance_efficient")))
            => eliminated' = eliminated \cup Shell(ret'.draw, ret'.d)
       /\ (stats_requested /\ Called("eliminate_from_draws"))
            => eliminated' = eliminated \cup Shells(ret'.list, ret'.d)]_vars

C9_Witness ==
    /\ stats_requested
    /\ calls = 2
    /\ ret.op = "eliminate_by_distance"
    /\ ret.count > 0
    /\ eliminated = Shell(ret.draw, ret.d)
    /\ eliminated # {}

\* C10: for every count N >= 0, get_sample_remaining(N) returns the first
\* min(N, |remaining|) combinations of the remaining sequence, and never
\* more than N of them.
C10_SampleIsBoundedPrefix ==
    ret.op = "get_sample_remaining" =>
        /\ ret.list = Prefix(Remaining(U, eliminated), ret.arg)
        /\ Len(ret.list) <= ret.arg

\* C10, for the verifier: sample_remaining_4combos(drawn, N) prints at most
\* N lines.
C10_Sample4IsBounded ==
    v_pc = "sampled" => Len(v_out.printed) <= v_out.count

\* C10 restricted to N >= 1, where the code agrees with it
C10_SampleIsBoundedPrefixFromOne ==
    (ret.op = "get_sample_remaining" /\ ret.arg >= 1) =>
        /\ ret.list = Prefix(Remaining(U, eliminated), ret.arg)
        /\ Len(ret.list) <= ret.arg

\* the number a byte stands for: the byte less the offset 32, modulo 256
Decoded(byte) == IF byte >= 32 THEN byte - 32 ELSE byte - 32 + 256

\* the records read back from what save_remaining wrote: the bytes of a
\* binary record decoded, the lines of a text file that are no comments
\* parsed
RecordsWritten(written, format, width) ==
    IF format = FormatBinary
    THEN [i \in 1..Len(written) |->
            [j \in 1..Len(written[i]) |-> Decoded(written[i][j])]]
    ELSE LET lines == SelectSeq(written, LAMBDA l : Head(l) # "#")
         IN  [i \in 1..Len(lines) |-> read_variant_text(lines[i])]

\* C11: save_remaining writes exactly the combinations of the universe that
\* are not in eliminated, each exactly once, in ascending lexicographic
\* order, in the text and in the binary format, and leaves eliminated and
\* draws as they were.
C11_SaveWritesComplement ==
    [][Called("save_remaining") =>
         LET records == RecordsWritten(ret'.written, ret'.arg, max_play)
         IN  /\ \A i \in 1..Len(records) :
                   /\ IsCombination(records[i], max_num, max_play)
                   /\ records[i] \notin eliminated
             /\ \A i \in 1..(Len(records) - 1) :
                   LexLess(records[i], records[i + 1])
             /\ \A S \in KSubsets(max_num, max_play) :
                   (\A c \in eliminated : ToSet(c) # S) =>
                       \E i \in 1..Len(records) : ToSet(records[i]) = S
             /\ eliminated' = eliminated
             /\ draws' = draws]_vars

C11_Witness ==
    /\ ret.op = "save_remaining"
    /\ ret.arg = FormatText
    /\ eliminated # {}
    /\ Len(ret.written) >= 6

\* C12: unchar(tochar(v)) = v for every number v of 0..255 and
\* tochar(unchar(b)) = b for every byte b of 0..255, so decoding the bytes
\* of a combination of playable numbers gives the combination back.
C12_CodecRoundTrip ==
    /\ t_op = "codec" =>
         /\ t_out.unchar_tochar = t_in
         /\ t_out.tochar_unchar = t_in
    /\ t_op = "var_to_bin" =>
         /\ t_out.var = t_in
         /\ t_out.variant = t_in

C12_Witness ==
    /\ t_op = "var_to_bin"
    /\ t_in = <<1, 2, 3, 4, 5, 6>>
    /\ t_out.var = <<1, 2, 3, 4, 5, 6>>

\* C13: tochar(v) is (v + 32) mod 256 and lies in 0..255 for every v of
\* 0..255; a playable number v of 1..49 encodes to v + 32 without
\* wrap-around, and (1,2,3,4,5,6) encodes to the bytes 33,34,35,36,37,38.
C13_EncodingOffset ==
    /\ t_op = "codec" =>
         /\ t_out.tochar \in 0..255
         /\ t_out.tochar = IF t_in + 32 <= 255 THEN t_in + 32
                           ELSE t_in + 32 - 256
         /\ t_in \in 1..MAX => t_out.tochar = t_in + 32
    /\ t_op = "var_to_bin" =>
         /\ \A i \in 1..Len(t_in) : t_out.bin[i] = t_in[i] + 32
         /\ t_in = <<1, 2, 3, 4, 5, 6>> =>
                t_out.bin = <<33, 34, 35, 36, 37, 38>>

C13_Witness ==
    /\ t_op = "var_to_bin"
    /\ t_in = <<1, 2, 3, 4, 5, 6>>
    /\ t_out.bin = <<33, 34, 35, 36, 37, 38>>

\* C14: of a binary file of L bytes read with record width max_play,
\* list_binary and process_binary decode exactly floor(L / max_play)
\* records, in order, from the first floor(L / max_play) * max_play bytes; a
\* partial last record is ignored and list_binary returns success.
C14_WholeRecordsOnly ==
    t_op \in {"list_binary", "process_binary"} =>
        LET width == t_in.max_play
            n == Len(t_in.data) \div width
        IN  /\ Len(t_out.variants) = n
            /\ \A r \in 1..n :
                  /\ Len(t_out.variants[r]) = width
                  /\ \A i \in 1..width :
                        t_out.variants[r][i]
                          = Decoded(t_in.data[(r - 1) * width + i])
            /\ t_op = "list_binary" =>
                  /\ t_out.ok
                  /\ t_out.count = n
                  /\ Len(t_out.lines) = n
            /\ t_op = "process_binary" =>
                  /\ t_out.cnt_line = n
                  /\ Len(t_out.written) = (n - t_out.cnt_trim) * width

C14_Witness ==
    /\ t_op = "list_binary"
    /\ Len(t_in.data) = 7
    /\ t_in.max_play = 3
    /\ t_out.count = 2
    /\ t_out.ok

\* C15: for every canonical combination c, read_variant_text applied to the
\* text record of c (the numbers in a field of width 2, joined by ', ', as
\* save_remaining writes them) returns c: same numbers, same order, same
\* length.
C15_TextRoundTrip ==
    t_op = "read_variant_text" =>
        /\ Len(t_out.variant) = Len(t_in)
        /\ \A i \in 1..Len(t_in) : t_out.variant[i] = t_in[i]

C15_Witness ==
    /\ t_op = "read_variant_text"
    /\ t_in = <<3, 4, 5, 6, 10, MAX>>
    /\ t_out.variant = <<3, 4, 5, 6, 10, MAX>>

\* the sequences of a sequence, one after the other
RECURSIVE Flatten(_)
Flatten(seqs) ==
    IF seqs = << >> THEN << >> ELSE Head(seqs) \o Flatten(Tail(seqs))

\* a token is a number: a string of digits that int() accepts
IsNumber(tok) == tok.isdigit /\ tok.int # ValueError

\* a draw line is well formed: six fields, each a number
WellFormed(line) ==
    /\ line.kind = "data"
    /\ Len(line.toks) = MAX_PLAY
    /\ \A i \in 1..Len(line.toks) : IsNumber(line.toks[i])

\* the draws of the lines of a file that satisfy Keep, each line loaded on
\* its own
DrawsOfLines(lines, Keep(_)) ==
    Flatten([i \in 1..Len(lines) |->
               IF Keep(lines[i]) THEN verify_load_draws(<<lines[i]>>)
               ELSE << >>])

\* C16: a line of a draw file whose number list holds a token that is no
\* number, or has the wrong number of fields, produces no draw, and every
\* well-formed line before and after it is still loaded: a bad line never
\* aborts the load and never changes the draws of the other lines.
C16_BadLinesSkipped ==
    v_pc # "start" => v_draws = DrawsOfLines(v_file, WellFormed)

\* a listed number of the line lies outside 1..MAX
OutOfRange(line) ==
    /\ line.kind = "data"
    /\ \E i \in 1..Len(line.toks) :
          /\ IsNumber(line.toks[i])
          /\ line.toks[i].int \notin 1..MAX

InRange(line) == ~OutOfRange(line)

\* C17: a draw line with a listed number outside 1..n yields no draw at all
\* (never a draw made of its other numbers), and the other lines of the file
\* are still loaded.  Stated of the files in which int() rejects no token.
C17_OutOfRangeDrawDropped ==
    (v_pc # "start" /\ ~FileRaises(v_file)) =>
        v_draws = DrawsOfLines(v_file, InRange)

\* C18: a date YYMMDD is written YYYY-MM-DD with YYYY = 20YY for YY below 50
\* and 19YY for YY of 50 or above, by parse_draw_line and by parse_txt_line.
C18_CenturyPivot ==
    (/\ t_op \in {"parse_draw_line", "parse_txt_line"}
     /\ t_out # None
     /\ isdigit(SubSeq(t_in.date, 1, 2))) =>
        LET yy == int(SubSeq(t_in.date, 1, 2))
        IN  /\ int(SubSeq(t_out.date, 1, 4))
                 = IF yy < 50 THEN 2000 + yy ELSE 1900 + yy
            /\ SubSeq(t_out.date, 5, 10)
                 = <<"-">> \o SubSeq(t_in.date, 3, 4) \o <<"-">>
                   \o SubSeq(t_in.date, 5, 6)

\* the gaps of more than 2 between neighbours of a set of numbers
Gaps(S) ==
    {x \in S : \E y \in S : /\ y - x > 2
                            /\ \A z \in S : ~(x < z /\ z < y)}

\* C19: of every parsed draw, holes is the number of adjacent pairs of the
\* six numbers in ascending order that differ by more than 2 (0 <= holes <=
\* 5) and odd the number of odd values among the six (0 <= odd <= 6),
\* whatever the order of the numbers on the line; (6,9,13,21,24,38) gives
\* holes = 5 and odd = 3.
C19_HolesAndOdd ==
    (t_op \in {"parse_draw_line", "parse_txt_line"} /\ t_out # None) =>
        /\ Len(t_out.numbers) = 6
        /\ t_out.holes = Cardinality(Gaps(ToSet(t_out.numbers)))
        /\ t_out.holes \in 0..5
        /\ t_out.odd
             = Cardinality({i \in 1..6 : t_out.numbers[i] % 2 = 1})
        /\ t_out.odd \in 0..6
        /\ ToSet(t_out.numbers) = {6, 9, 13, 21, 24, 38} =>
               (t_out.holes = 5 /\ t_out.odd = 3)

C19_Witness ==
    /\ t_op = "parse_draw_line"
    /\ t_out.numbers = <<38, 24, 21, 13, 9, 6>>
    /\ t_out.holes = 5
    /\ t_out.odd = 3

\* the draws parsed from the lines of a file, in the order of the file
ParsedDraws(lines, Parse(_)) ==
    Flatten([i \in 1..Len(lines) |->
               IF Parse(lines[i]) # None THEN <<Parse(lines[i])>>
               ELSE << >>])

\* the date YYYY-MM-DD is made of digits, and its place in the calendar
IsCalendarDate(date) ==
    /\ Len(date) = 10
    /\ isdigit(SubSeq(date, 1, 4))
    /\ isdigit(SubSeq(date, 6, 7))
    /\ isdigit(SubSeq(date, 9, 10))

CalendarDay(date) ==
    (int(SubSeq(date, 1, 4)) * 100 + int(SubSeq(date, 6, 7))) * 100
    + int(SubSeq(date, 9, 10))

\* C20: the draws convert_txt_to_json writes are a permutation of the draws
\* that parsed, are in ascending (non-decreasing) order of their calendar
\* dates, and keep draws of equal dates in the order of the input file.
C20_SortedStablePermutation ==
    t_op \in {"convert_txt_to_json", "convert_txt_to_json_CA"} =>
        LET parsed == IF t_op = "convert_txt_to_json"
                      THEN ParsedDraws(t_in, parse_draw_line)
                      ELSE ParsedDraws(t_in, parse_txt_line)
            out == t_out.draws
            Count(s, d) == Cardinality({i \in 1..Len(s) : s[i] = d})
        IN  /\ Len(out) = Len(parsed)
            /\ \A d \in ToSet(parsed) : Count(out, d) = Count(parsed, d)
            /\ \A i \in 1..Len(out) : \A j \in (i + 1)..Len(out) :
                  (IsCalendarDate(out[i].date) /\ IsCalendarDate(out[j].date))
                      => CalendarDay(out[i].date) <= CalendarDay(out[j].date)
            /\ \A d \in ToSet(parsed) :
                  SelectSeq(out, LAMBDA x : x.date = d.date)
                    = SelectSeq(parsed, LAMBDA x : x.date = d.date)

C20_Witness ==
    /\ t_op = "convert_txt_to_json"
    /\ Len(t_in) = 2
    /\ Len(t_out.draws) = 2
    /\ t_in[1].date = Date(25, 10, 25)
    /\ t_in[2].date = Date(25, 1, 4)
    /\ t_out.draws[1].date
         = <<"2", "0", "2", "5", "-", "0", "1", "-", "0", "4">>

\* the lines of a file that are neither blank nor comments
DataLinesOf(lines) ==
    {i \in 1..Len(lines) : lines[i].kind \notin {"blank", "comment"}}

\* C21: at the end of convert_txt_to_json (of txt_to_json_converter.py and of
\* 649CA.py) the number of draws converted plus the number of skipped lines
\* reported is the number of lines of the input that are neither blank nor
\* comments.
C21_ConvertedPlusSkipped ==
    t_op \in {"convert_txt_to_json", "convert_txt_to_json_CA"} =>
        /\ t_out.ok
        /\ Len(t_out.draws) + t_out.skipped = Cardinality(DataLinesOf(t_in))

C21_Witness ==
    /\ t_op = "convert_txt_to_json"
    /\ \E i \in 1..Len(t_in) : t_in[i].kind = "comment"
    /\ \E i \in 1..Len(t_in) :
          t_in[i].kind = "data" /\ Raises(t_in[i].toks)
    /\ t_out.skipped = 1
    /\ Len(t_out.draws) = 0

\* C22: after eliminate_from_draws(d, specific_draws = N) the 'Draws
\* processed' figure printed is the number of draws run through elimination
\* in that pass: min(N, number of loaded draws) for a given N, the number of
\* loaded draws for None.
C22_DrawsProcessedIsPassLength ==
    (ret.op = "eliminate_from_draws" /\ ret.stats # NoStats) =>
        /\ ret.stats.draws = Len(ret.list)
        /\ Len(ret.list) = Len(ret.counts)
        /\ Len(ret.list) = IF ret.arg = NoneArg THEN Len(draws)
                           ELSE IF ret.arg < Len(draws) THEN ret.arg
                           ELSE Len(draws)

\* C23: for any prior elimination set, draw and distance d,
\* eliminate_by_distance(draw, d) leaves eliminated equal to the prior set
\* united with the combinations of the universe that share exactly k - d
\* numbers with the draw, and leaves the draws list unchanged.
C23_EliminateAddsExactlyShell ==
    [][Called("eliminate_by_distance") =>
          /\ eliminated' = eliminated \cup Shell(ret'.draw, ret'.d)
          /\ \A c \in ToSet(U) \ eliminated :
                c \in eliminated' <=>
                   Cardinality(ToSet(c) \cap ToSet(ret'.draw))
                       = max_play - ret'.d
          /\ draws' = draws]_vars

C23_Witness ==
    /\ ret.op = "eliminate_by_distance"
    /\ calls = 1
    /\ draws # << >>
    /\ ret.count > 0
    /\ ret.count < Cardinality(Shell(ret.draw, ret.d))
    /\ eliminated \ Shell(ret.draw, ret.d) # {}
    /\ eliminated # ToSet(U)

\* C24: for every prior elimination set, draw, distance d and
\* batch_size >= 1, eliminate_by_distance_efficient leaves the eliminated
\* set and returns the count that eliminate_by_distance leaves and returns
\* from the same state, also when the number of matches is no multiple of
\* batch_size.
C24_EfficientEqualsPlain ==
    [][Called("eliminate_by_distance_efficient") =>
          LET plain == eliminate_by_distance(U, max_play, eliminated,
                                             ret'.draw, ret'.d)
          IN  /\ ret'.arg >= 1
              /\ eliminated' = plain.eliminated
              /\ ret'.count = plain.count
              /\ draws' = draws]_vars

C24_Witness ==
    /\ ret.op = "eliminate_by_distance_efficient"
    /\ calls = 1
    /\ ret.arg = 2
    /\ ret.count = 3
    /\ eliminated \ Shell(ret.draw, ret.d) # {}
    /\ Shell(ret.draw, ret.d) \subseteq eliminated

\* a strictly increasing tuple
StrictlyIncreasing(c) == \A i \in 1..(Len(c) - 1) : c[i] < c[i + 1]

\* C25: for every draw of 6 distinct numbers get_4combos_from_6 returns 15
\* pairwise distinct, strictly increasing 4-tuples, each a subset of the
\* draw; after analyze_4combos the coverage set has at most 15 members per
\* draw and the overlap figure max_possible - drawn_count is not negative.
C25_FifteenSubsetsPerDraw ==
    t_op = "analyze_4combos" =>
        /\ \A i \in 1..Len(t_in) :
              Cardinality(ToSet(t_in[i])) = 6 =>
                 LET r == t_out.combos[i]
                 IN  /\ Len(r) = 15
                     /\ Cardinality(ToSet(r)) = 15
                     /\ \A j \in 1..Len(r) :
                           /\ Len(r[j]) = 4
                           /\ StrictlyIncreasing(r[j])
                           /\ ToSet(r[j]) \subseteq ToSet(t_in[i])
        /\ Cardinality(t_out.drawn) <= 15 * Len(t_in)
        /\ t_out.totals.drawn_count = Cardinality(t_out.drawn)
        /\ t_out.totals.max_possible = 15 * Len(t_in)
        /\ t_out.totals.overlap
             = t_out.totals.max_possible - t_out.totals.drawn_count
        /\ t_out.totals.overlap >= 0

C25_Witness ==
    /\ t_op = "analyze_4combos"
    /\ t_in = <<<<10, 1, MAX, 2, 6, 4>>, <<1, 2, 3, 4, 5, 6>>>>
    /\ Len(t_out.combos[1]) = 15
    /\ t_out.totals.drawn_count = 29
    /\ t_out.totals.overlap = 1

\* C26: every draw load_draws appends has exactly max_play elements, all
\* distinct, sorted strictly ascending, whatever the lines of the file.
C26_LoadedDrawsAreCombinations ==
    \A i \in 1..Len(v_draws) :
        /\ Len(v_draws[i]) = MAX_PLAY
        /\ Cardinality(ToSet(v_draws[i])) = MAX_PLAY
        /\ StrictlyIncreasing(v_draws[i])

\* the combination a line of a text file is the record of, << >> for a line
\* that is no record of a combination
RecordOf(line) ==
    IF \E c \in TextCombos : line = TextRecord(c) \o <<"\n">>
    THEN CHOOSE c \in TextCombos : line = TextRecord(c) \o <<"\n">>
    ELSE << >>

\* the records of width bytes of a binary file, in order
BinRecords(data, width) ==
    [r \in 1..(Len(data) \div width) |->
        SubSeq(data, (r - 1) * width + 1, r * width)]

\* C27, binary files: process_binary writes the records that do not contain
\* the trim number, unchanged and in input order, omits the others, and
\* counts Initial = Trimmed + Remaining with Initial the number of records.
C27_BinaryPass ==
    t_op = "process_binary" =>
        LET recs == BinRecords(t_in.data, t_in.max_play)
            Kept(rec) == \A i \in 1..Len(rec) : Decoded(rec[i]) # t_in.num
            kept == SelectSeq(recs, Kept)
        IN  /\ t_out.written = Flatten(kept)
            /\ t_out.cnt_line = Len(recs)
            /\ t_out.cnt_line - t_out.cnt_trim = Len(kept)

\* C27, text files: the same of process_text, a record being a line of
\* max_play numbers as save_remaining writes it.
C27_TextPass ==
    t_op = "process_text" =>
        LET IsRecord(line) == Len(RecordOf(line)) = t_in.max_play
            Kept(line) == t_in.num \notin ToSet(RecordOf(line))
            recs == SelectSeq(t_in.lines, IsRecord)
            kept == SelectSeq(recs, Kept)
        IN  /\ t_out.written = kept
            /\ t_out.cnt_line = Len(recs)
            /\ t_out.cnt_line - t_out.cnt_trim = Len(kept)

\* C27: in one trimming pass (process_text or process_binary) every record
\* of max_play numbers that does not contain the trim number is written
\* unchanged and in input order, every record containing it is omitted, and
\* Initial = Trimmed + Remaining with Initial the number of records of the
\* input, text records with a leading space included.
C27_TrimPass == C27_BinaryPass /\ C27_TextPass

\* C27, text files, for the records that begin with a digit (a first number
\* of two digits): for these process_text does what C27 says.
C27_TextPassDigitFirst ==
    (/\ t_op = "process_text"
     /\ \A i \in 1..Len(t_in.lines) :
           RecordOf(t_in.lines[i]) # << >> => t_in.lines[i][1] # " ") =>
        LET IsRecord(line) == Len(RecordOf(line)) = t_in.max_play
            Kept(line) == t_in.num \notin ToSet(RecordOf(line))
            recs == SelectSeq(t_in.lines, IsRecord)
            kept == SelectSeq(recs, Kept)
        IN  /\ t_out.written = kept
            /\ t_out.cnt_line = Len(recs)
            /\ t_out.cnt_line - t_out.cnt_trim = Len(kept)

ShownBy(line) ==
    [date |-> line.date,
     numbers |-> [i \in 1..Len(line.toks) |-> line.toks[i].int],
     bonus |-> line.after[1].int]

\* what a_649.txt shows of a draw of a JSON file: YYMMDD of its date
\* YYYY-MM-DD, numbers and bonus
ShownOf(draw) ==
    [date |-> SubSeq(draw.date, 3, 4) \o SubSeq(draw.date, 6, 7)
              \o SubSeq(draw.date, 9, 10),
     numbers |-> draw.numbers,
     bonus |-> draw.bonus]

\* a_649.txt holds exactly the draws of the JSON file: as many draw lines
\* as draws, and the same draws shown
Synchronized(txt, json) ==
    /\ txt.exists
    /\ LET IsDrawLine(line) == line.kind = "data"
           lines == SelectSeq(txt.lines, IsDrawLine)
       IN  /\ Len(lines) = Len(json.draws)
           /\ \A i \in 1..Len(json.draws) : json.draws[i].has_date
           /\ {ShownBy(lines[i]) : i \in 1..Len(lines)}
                = {ShownOf(json.draws[i]) : i \in 1..Len(json.draws)}

\* C29: whenever process_downloaded_file returns True, a_649.txt has been
\* rewritten to hold exactly the draws of the file now stored as
\* lottery-data-new.json, and update_txt_file did not fail.
C29_SuccessMeansSynchronized ==
    (m_ret.op = "process_downloaded_file" /\ m_ret.ok) =>
        /\ m_ret.txt_ok
        /\ Synchronized(m_fs.txt_file, m_fs.json_new)

\* C29, for the files whose draws all have a date that strptime reads: a
\* True of process_downloaded_file leaves a_649.txt synchronized.
C29_SynchronizedWhenDatesAreRead ==
    (/\ m_ret.op = "process_downloaded_file" /\ m_ret.ok
     /\ \A i \in 1..Len(m_fs.json_new.draws) :
           /\ m_fs.json_new.draws[i].has_date
           /\ strptime(m_fs.json_new.draws[i].date).ok) =>
        /\ m_ret.txt_ok
        /\ Synchronized(m_fs.txt_file, m_fs.json_new)

\* the step is a call of process_downloaded_file
ManagerCalled == m_calls' = m_calls + 1

\* C30: after a call that returns True, lottery-data-new.json holds the
\* content just downloaded, lottery-data-old.json holds what
\* lottery-data-new.json held before the call (if it existed), and the file
\* is gone from Downloads; after a call rejected for a missing 'draws'
\* field, lottery-data-new.json, lottery-data-old.json and a_649.txt are
\* unchanged.
C30_RotationAndRejection ==
    [][ManagerCalled =>
          /\ m_ret'.ok =>
                /\ m_fs.download.exists
                /\ m_fs'.json_new = m_fs.download
                /\ m_fs.json_new.exists => m_fs'.json_old = m_fs.json_new
                /\ ~m_fs'.download.exists
          /\ (m_fs.download.exists /\ m_fs.download.json
              /\ ~m_fs.download.has_draws) =>
                /\ ~m_ret'.ok
                /\ m_fs'.json_new = m_fs.json_new
                /\ m_fs'.json_old = m_fs.json_old
                /\ m_fs'.txt_file = m_fs.txt_file]_vars

C30_Witness ==
    /\ m_calls = 2
    /\ m_ret.op = "process_downloaded_file"
    /\ m_ret.ok
    /\ m_fs.json_new = JsonObject(TRUE, <<DrawA, DrawB>>)
    /\ m_fs.json_old = JsonObject(TRUE, <<DrawA>>)
    /\ ~m_fs.download.exists

====
